---- MODULE Spec2Model ----
(***************************************************************************)
(* Model of review_radar's batch auto-labeling pipeline.                   *)
(*                                                                         *)
(* LabelingService.make_labels (services/labeling/labeling_service.py) is  *)
(* modelled as a state machine whose steps are the external calls it       *)
(* makes: one page fetch, one loop iteration per review (provider call,    *)
(* counters, buffered insert, budget check) and the `finally` block that   *)
(* closes every page.  Storage is the `reviews`/`labels` tables as seen    *)
(* through get_unlabeled_reviews and insert_labels_batch; of the usage log *)
(* (a CSV file update_log only appends to) the rows of the current run are *)
(* kept.                                                                   *)
(***************************************************************************)
EXTENDS Integers, Sequences, FiniteSets, TLC

\* ---------------------------------------------------------------- bounds
MaxReviews == 3      \* reviews of the batch, ids 1..k with k <= MaxReviews
MaxFetch   == 3      \* fecth_limit is drawn from 1..MaxFetch
MaxBatch   == 3      \* batch_size is drawn from 1..MaxBatch
MaxLimit   == 3      \* input_token_limit is drawn from 1..MaxLimit
MaxTokens  == 2      \* prompt_token_count of one call is in 1..MaxTokens
MaxRuns    == 2      \* invocations of make_labels per service object
MaxAspects == 2      \* aspects of a batch; also the longest array of a response
MaxUpdates == 2      \* entries of a bulk_update_labels input
MaxOps     == 4      \* calls made on DataFactory and the LabelingService constructor
MaxShortPages == 1   \* pages shorter than fecth_limit an unending storage returns

\* ------------------------------------------------------ program constants
RangeBound == 10000  \* for i in range(0, 10000)

Procs   == {1, 2}    \* LabelingService objects (one run each at a time)
Missing == -1        \* a key absent from metadata['usage_metadata']

PromptVals == 1..MaxTokens   \* prompt_token_count values
CandVals   == 0..1           \* candidates_token_count values
OutLimits  == 1..2           \* output_token_limit values
SharedBatchSizes == 1..2     \* reviews in a batch that concurrent or repeated runs work on
LoopFetchLimits == 1..2      \* fecth_limit values of a run on an unending storage

VARIABLES
    nreviews,             \* number of reviews in the batch (ids 1..nreviews)
    labels,               \* labels table: review id -> number of label rows
    active,               \* service objects that exist
    args,                 \* make_labels arguments of each service
    pc,                   \* position of each service inside make_labels
    i,                    \* loop variable of `for i in range(0, 10000)`
    reviews,              \* the page returned by the last fetch
    idx,                  \* position of `review` inside `reviews`
    results_label,        \* the write buffer (review ids)
    total_input_tokens,
    total_output_tokens,
    total_requests,
    exit,                 \* how the try block was left: continue/return/raise
    runs,                 \* invocations of make_labels so far
    fetches,              \* this run's get_unlabeled_reviews calls
    calls,                \* this run's provider.process_label calls
    inserts,              \* this run's insert_labels_batch calls
    run_log,              \* rows this run appended to labeling_batch_<id>_log.csv
    log_file,             \* the rows of labeling_batch_<id>_log.csv; <<>> is no file
    clock,                \* what datetime.now() returns next
    report,               \* report_dict of the update_log call in progress
    log_df,               \* log_df of the update_log call in progress
    log_failed,           \* an update_log call of this run raised
    unlabeled0,           \* reviews without a label when this run started
    \* ---- GeminiFlashLite25Provider.process_label
    aspects,              \* self.aspects, the construction-time aspect list
    response,             \* the model's response: response.text as a JSON
                          \* value and the keys of response.to_dict()
    label_result,         \* what process_label returned or raised
    \* ---- DataFactory and LabelingService.__init__
    instances,            \* DataFactory._instances: key -> cached instance
    next_id,              \* identity of the next object to be allocated
    ops,                  \* calls made so far
    last_call,            \* the last call: its arguments and what it did
    returned,             \* key -> what create last returned, until a reset of the key
    built,                \* key -> create_client calls since the last reset of the key
    retired,              \* identities of the instances reset has dropped
    \* ---- ReviewRepository
    repo_call,            \* the repository call made: arguments and outcome
    fetched,              \* data layer get_unlabeled_reviews calls it made
    forwarded,            \* data layer bulk_update_reviews calls it made
    \* ---- make_labels on a storage that need never return an empty page
    loop_pc,              \* where the run is: fetch, review, finally, returned, raised
    loop_i,               \* i of `for i in range(0, 10000)`
    loop_fecth_limit,     \* the fecth_limit argument
    page_len,             \* len(reviews) of the page being processed
    page_idx,             \* position of `for review in reviews`
    loop_exit,            \* how the try block was left
    fetch_count,          \* get_unlabeled_reviews calls issued by the run
    call_count,           \* provider.process_label calls issued by the run
    short_pages           \* non-empty pages shorter than fecth_limit so far

LabelingVars == <<nreviews, labels, active, args, pc, i, reviews, idx,
                  results_label, total_input_tokens, total_output_tokens,
                  total_requests, exit, runs, fetches, calls, inserts, run_log,
                  log_file, clock, report, log_df, log_failed, unlabeled0>>
\* the service objects, without the tables of the batch
ServiceVars == <<active, args, pc, i, reviews, idx, results_label,
                 total_input_tokens, total_output_tokens, total_requests,
                 exit, runs, fetches, calls, inserts, run_log, log_file,
                 clock, report, log_df, log_failed, unlabeled0>>
ProviderVars == <<aspects, response, label_result>>

FactoryVars == <<instances, next_id, ops, last_call, returned, built, retired>>

RepoVars == <<repo_call, fetched, forwarded>>

LoopVars == <<loop_pc, loop_i, loop_fecth_limit, page_len, page_idx,
              loop_exit, fetch_count, call_count, short_pages>>

vars == <<LabelingVars, ProviderVars, FactoryVars, RepoVars, LoopVars>>
\* what make_labels never touches
NotLabelingVars == <<ProviderVars, FactoryVars, RepoVars, LoopVars>>
\* what process_label never touches
NotProviderVars == <<LabelingVars, FactoryVars, RepoVars, LoopVars>>
\* what DataFactory and the constructor never touch
NotFactoryVars == <<LabelingVars, ProviderVars, RepoVars, LoopVars>>
\* what the ReviewRepository methods never touch
NotRepoVars == <<LabelingVars, ProviderVars, FactoryVars, LoopVars>>
\* what the loop of make_labels never touches on its own
NotLoopVars == <<LabelingVars, ProviderVars, FactoryVars, RepoVars>>

\* ------------------------------------------------------------- helpers
Min(a, b) == IF a < b THEN a ELSE b

RECURSIVE SumOf(_, _)
\* sum of field f over the successful calls of a call history
SumOf(s, f) ==
    IF s = <<>> THEN 0
    ELSE (IF Head(s).kind = "ok" THEN Head(s)[f] ELSE 0) + SumOf(Tail(s), f)

RECURSIVE Flatten(_)
Flatten(ss) == IF ss = <<>> THEN <<>> ELSE Head(ss) \o Flatten(Tail(ss))

Range(s) == {s[n] : n \in 1..Len(s)}

\* ------------------------------------------------------------- storage
RECURSIVE UnlabeledFrom(_, _, _)
\* ids n..k of the reviews without a label row, in id order
UnlabeledFrom(n, k, lab) ==
    IF n > k THEN <<>>
    ELSE (IF lab[n] = 0 THEN <<n>> ELSE <<>>) \o UnlabeledFrom(n + 1, k, lab)

\* the .is_('labels', None) filter is lost: pages of all reviews of the batch
get_unlabeled_reviews_NoFilter(k, lab, limit, offset) ==
    LET u == [n \in 1..k |-> n]
    IN  SubSeq(u, offset + 1, Min(offset + limit, Len(u)))

\* .eq('batch_id', ..).is_('labels', None).range(offset, offset + limit - 1)
get_unlabeled_reviews(k, lab, limit, offset) ==
    LET u == UnlabeledFrom(1, k, lab)
    IN  SubSeq(u, offset + 1, Min(offset + limit, Len(u)))

\* an upsert keyed on the review: a review never gets a second label row
insert_labels_batch_Upsert(lab, buf) ==
    [r \in DOMAIN lab |-> IF r \in Range(buf) THEN 1 ELSE lab[r]]

\* label_data_supabase.py lines 26-76: .table('labels').insert(data), one row
insert_label(lab, review_id) == [lab EXCEPT ![review_id] = @ + 1]

\* .table('labels').insert(labels): one row per buffered entry
insert_labels_batch(lab, buf) ==
    [r \in DOMAIN lab |-> lab[r] + Cardinality({n \in 1..Len(buf) : buf[n] = r})]

\* ------------------------------------------------------ LabelingService
\* the page number is used as the offset
PageOffset_PageNumber(p) == i[p]

\* line 106: offset=i * fecth_limit
PageOffset(p) == i[p] * args[p].fecth_limit

\* the buffer is written one entry late
BufferFull_OffByOne(buf, p) == Len(buf) > args[p].batch_size

\* line 133
BufferFull(buf, p) == Len(buf) >= args[p].batch_size

TokenLimitReached(tin, tout, p) ==
    (tin > args[p].input_token_limit) \/ (tout > args[p].output_token_limit)

\* a short page taken for the last one
NoMoreReviews_ShortPage(page, p) == Len(page) < args[p].fecth_limit

\* line 108: `if not reviews`
NoMoreReviews(page, p) == page = <<>>

\* a provider error skips the review instead of ending the run
ExitOf_SkipReview(kind, full, ins, stop, last) ==
    IF kind = "nometa" THEN "return"
    ELSE IF kind = "ok" /\ full /\ ins = "keyerror" THEN "return"
    ELSE IF kind = "ok" /\ full /\ ins = "raise" THEN "raise"
    ELSE IF kind = "ok" /\ stop THEN "return"
    ELSE IF last THEN "continue"
    ELSE "next"

\* a KeyError is swallowed and the loop goes on
ExitOf_IgnoreKeyError(kind, full, ins, stop, last) ==
    IF kind = "raise" THEN "return"
    ELSE IF kind = "ok" /\ full /\ ins = "raise" THEN "raise"
    ELSE IF kind = "ok" /\ stop THEN "return"
    ELSE IF last THEN "continue"
    ELSE "next"

\* How one loop iteration leaves the loop body: "next" goes on with the next
\* review, "continue" is the normal end of the page, "return" is one of the
\* return statements (lines 121, 142, 147), "raise" an exception that is not
\* a KeyError (line 135).  `ins` is what the bulk insert of a full buffer
\* did: a KeyError out of it is caught by line 144 like any other.
ExitOf(kind, full, ins, stop, last) ==
    IF kind = "raise" THEN "return"
    ELSE IF kind = "nometa" THEN "return"
    ELSE IF full /\ ins = "keyerror" THEN "return"
    ELSE IF full /\ ins = "raise" THEN "raise"
    ELSE IF stop THEN "return"
    ELSE IF last THEN "continue"
    ELSE "next"

\* what insert_labels_batch can do: insert the rows, raise a KeyError, or
\* raise anything else
InsertOutcomes == {"ok", "keyerror", "raise"}

\* the status update_log is called with when the iteration returns: none
\* after a provider error (line 121), line 146 after a KeyError, line 141
StatusOf(kind, full, ins) ==
    IF kind = "raise" THEN "none"
    ELSE IF kind = "nometa" \/ (full /\ ins = "keyerror")
    THEN "failed_due_to_keyerror"
    ELSE "stopped_due_to_token_limit"

\* counters survive the end of the page
reset_counters_Keep(c, p) == c

\* reset_counters, for one of the three counters
reset_counters(c, p) == [c EXCEPT ![p] = 0]

\* lines 76-81: the row update_log writes
report_dict(status, tin, tout, treq, now) ==
    [status |-> status, input_tokens |-> tin, output_tokens |-> tout,
     total_requests |-> treq, timestamp |-> now]

\* no update_log call is in progress
NoReport == report_dict("none", 0, 0, 0, 0)

\* no log file yet, no update_log call in progress
LogInit ==
    /\ log_file = <<>>
    /\ clock = 0
    /\ report = [p \in Procs |-> NoReport]
    /\ log_df = [p \in Procs |-> <<>>]
    /\ log_failed = [p \in Procs |-> FALSE]

ArgSet == [fecth_limit : 1..MaxFetch, batch_size : 1..MaxBatch,
           input_token_limit : 1..MaxLimit, output_token_limit : OutLimits]

\* what one provider.process_label call can do
Outcomes ==
    {[kind |-> "raise", prompt |-> 0, cand |-> 0]} \cup
    [kind : {"ok"}, prompt : PromptVals, cand : CandVals] \cup
    [kind : {"nometa"}, prompt : {Missing}, cand : {Missing}] \cup
    [kind : {"nometa"}, prompt : PromptVals, cand : {Missing}]

LabelingInit ==
    /\ nreviews \in 0..MaxReviews
    /\ labels = [r \in 1..nreviews |-> 0]
    /\ active = {1}
    /\ args \in [Procs -> ArgSet]
    /\ \A p \in Procs \ active : args[p] = args[1]
    /\ pc = [p \in Procs |-> "idle"]
    /\ i = [p \in Procs |-> 0]
    /\ reviews = [p \in Procs |-> <<>>]
    /\ idx = [p \in Procs |-> 0]
    /\ results_label = [p \in Procs |-> <<>>]
    /\ total_input_tokens = [p \in Procs |-> 0]
    /\ total_output_tokens = [p \in Procs |-> 0]
    /\ total_requests = [p \in Procs |-> 0]
    /\ exit = [p \in Procs |-> "none"]
    /\ runs = [p \in Procs |-> 0]
    /\ fetches = [p \in Procs |-> <<>>]
    /\ calls = [p \in Procs |-> <<>>]
    /\ inserts = [p \in Procs |-> <<>>]
    /\ run_log = [p \in Procs |-> <<>>]
    /\ LogInit
    /\ unlabeled0 = [p \in Procs |-> <<>>]

\* the frame of make_labels is gone: its locals no longer exist
Leave(p, how) ==
    /\ pc' = [pc EXCEPT ![p] = how]
    /\ i' = [i EXCEPT ![p] = 0]
    /\ reviews' = [reviews EXCEPT ![p] = <<>>]
    /\ idx' = [idx EXCEPT ![p] = 0]
    /\ results_label' = [results_label EXCEPT ![p] = <<>>]
    /\ exit' = [exit EXCEPT ![p] = "none"]

\* lines 76-81: update_log(status) is entered and builds report_dict from the
\* counters as they are now; the file is read and rewritten in later steps
update_log(p, status, tin, tout, treq) ==
    /\ report' = [report EXCEPT ![p] =
                     report_dict(status, tin, tout, treq, clock)]
    /\ clock' = clock + 1

\* lines 82-88: pd.read_csv and pd.concat; a missing file gives a frame of the
\* one row; any other error of read_csv leaves log_df unbound
read_log(file, row) == Append(file, row)

\* the log variables an action without an update_log call leaves alone
LogVars == <<run_log, log_file, clock, report, log_df, log_failed>>

\* a caller invokes make_labels(fecth_limit, batch_size, limits)
Invoke(p) ==
    /\ UNCHANGED NotLabelingVars
    /\ p \in active
    /\ pc[p] \in {"idle", "returned", "raised"}
    /\ runs[p] < MaxRuns
    /\ runs' = [runs EXCEPT ![p] = @ + 1]
    /\ pc' = [pc EXCEPT ![p] = "fetch"]
    /\ fetches' = [fetches EXCEPT ![p] = <<>>]
    /\ calls' = [calls EXCEPT ![p] = <<>>]
    /\ inserts' = [inserts EXCEPT ![p] = <<>>]
    /\ run_log' = [run_log EXCEPT ![p] = <<>>]
    /\ log_failed' = [log_failed EXCEPT ![p] = FALSE]
    /\ unlabeled0' = [unlabeled0 EXCEPT ![p] = UnlabeledFrom(1, nreviews, labels)]
    /\ UNCHANGED <<nreviews, labels, active, args, i, reviews, idx,
                   results_label, total_input_tokens, total_output_tokens,
                   total_requests, exit, log_file, clock, report, log_df>>

\* lines 101-113: one page fetch; on an empty page update_log("completed")
\* is entered
FetchPage(p) ==
    /\ UNCHANGED NotLabelingVars
    /\ pc[p] = "fetch"
    /\ i[p] < RangeBound
    /\ LET page == get_unlabeled_reviews(nreviews, labels,
                                         args[p].fecth_limit, PageOffset(p))
       IN  /\ fetches' = [fetches EXCEPT ![p] = Append(@,
                  [offset |-> PageOffset(p), limit |-> args[p].fecth_limit,
                   ids |-> page, ok |-> TRUE])]
           /\ IF NoMoreReviews(page, p)
              THEN /\ update_log(p, "completed", total_input_tokens[p],
                                 total_output_tokens[p], total_requests[p])
                   /\ pc' = [pc EXCEPT ![p] = "log_read"]
                   /\ reviews' = [reviews EXCEPT ![p] = page]
                   /\ UNCHANGED <<results_label, idx>>
              ELSE /\ reviews' = [reviews EXCEPT ![p] = page]
                   /\ results_label' = [results_label EXCEPT ![p] = <<>>]
                   /\ idx' = [idx EXCEPT ![p] = 1]
                   /\ pc' = [pc EXCEPT ![p] = "review"]
                   /\ UNCHANGED <<report, clock>>
    /\ UNCHANGED <<nreviews, labels, active, args, total_input_tokens,
                   total_output_tokens, total_requests, runs, calls, inserts,
                   unlabeled0, i, exit, run_log, log_file, log_df, log_failed>>

\* lines 103-106 when the storage call raises: nothing catches it
FetchPageFails(p) ==
    /\ UNCHANGED NotLabelingVars
    /\ pc[p] = "fetch"
    /\ i[p] < RangeBound
    /\ fetches' = [fetches EXCEPT ![p] = Append(@,
           [offset |-> PageOffset(p), limit |-> args[p].fecth_limit,
            ids |-> <<>>, ok |-> FALSE])]
    /\ Leave(p, "raised")
    /\ UNCHANGED <<nreviews, labels, active, args,
                   total_input_tokens, total_output_tokens, total_requests,
                   runs, calls, inserts, unlabeled0>>
    /\ UNCHANGED LogVars

\* lines 139-147 and the end of the loop body: where the run goes once the
\* provider result is counted and a full buffer, if any, has been sent
AfterReview(p, status, how, tin, tout, treq) ==
    IF how = "return" /\ status # "none"
    THEN /\ update_log(p, status, tin, tout, treq)
         /\ pc' = [pc EXCEPT ![p] = "log_read"]
         /\ exit' = [exit EXCEPT ![p] = "return"]
         /\ UNCHANGED idx
    ELSE /\ UNCHANGED <<report, clock>>
         /\ idx' = [idx EXCEPT ![p] = IF how = "next" THEN @ + 1 ELSE @]
         /\ pc' = [pc EXCEPT ![p] =
                     IF how = "next" THEN "review" ELSE "finally"]
         /\ exit' = [exit EXCEPT ![p] = IF how = "next" THEN "none" ELSE how]

\* lines 116-133: one provider call of `for review in reviews` and what
\* follows it up to the next call that leaves the process
ProcessReview(p) ==
    /\ UNCHANGED NotLabelingVars
    /\ pc[p] = "review"
    /\ \E o \in Outcomes :
        LET rid   == reviews[p][idx[p]]
            \* line 125 raises KeyError when prompt_token_count is missing
            tin   == IF o.kind # "raise" /\ o.prompt # Missing
                     THEN total_input_tokens[p] + o.prompt
                     ELSE total_input_tokens[p]
            tout  == IF o.kind = "ok" THEN total_output_tokens[p] + o.cand
                     ELSE total_output_tokens[p]
            treq  == IF o.kind = "ok" THEN total_requests[p] + 1
                     ELSE total_requests[p]
            buf   == IF o.kind = "ok" THEN Append(results_label[p], rid)
                     ELSE results_label[p]
            full  == o.kind = "ok" /\ BufferFull(buf, p)
            stop  == o.kind = "ok" /\ TokenLimitReached(tin, tout, p)
            last  == idx[p] = Len(reviews[p])
            how   == ExitOf(o.kind, FALSE, "ok", stop, last)
        IN  /\ calls' = [calls EXCEPT ![p] = Append(@,
                   [id |-> rid, page |-> i[p], kind |-> o.kind,
                    prompt |-> o.prompt, cand |-> o.cand])]
            /\ total_input_tokens' = [total_input_tokens EXCEPT ![p] = tin]
            /\ total_output_tokens' = [total_output_tokens EXCEPT ![p] = tout]
            /\ total_requests' = [total_requests EXCEPT ![p] = treq]
            /\ results_label' = [results_label EXCEPT ![p] = buf]
            /\ IF full
               THEN /\ pc' = [pc EXCEPT ![p] = "insert"]
                    /\ UNCHANGED <<idx, exit, report, clock>>
               ELSE AfterReview(p, StatusOf(o.kind, FALSE, "ok"), how,
                                tin, tout, treq)
    /\ UNCHANGED <<nreviews, labels, active, args, i, reviews, runs, fetches,
                   inserts, unlabeled0, run_log, log_file, log_df, log_failed>>

\* lines 133-147: the bulk insert of a full buffer and what follows it; the
\* insert is inside the try block, so a KeyError it raises goes to line 144
InsertBatch(p) ==
    /\ UNCHANGED NotLabelingVars
    /\ pc[p] = "insert"
    /\ \E ins \in InsertOutcomes :
        LET buf  == results_label[p]
            stop == TokenLimitReached(total_input_tokens[p],
                                      total_output_tokens[p], p)
            last == idx[p] = Len(reviews[p])
            how  == ExitOf("ok", TRUE, ins, stop, last)
        IN  /\ inserts' = [inserts EXCEPT ![p] =
                              Append(@, [ids |-> buf, ok |-> ins = "ok"])]
            /\ labels' = IF ins = "ok" THEN insert_labels_batch(labels, buf)
                         ELSE labels
            \* line 136 is skipped when line 135 raises
            /\ results_label' = [results_label EXCEPT ![p] =
                                    IF ins = "ok" THEN <<>> ELSE buf]
            /\ AfterReview(p, StatusOf("ok", TRUE, ins), how,
                           total_input_tokens[p], total_output_tokens[p],
                           total_requests[p])
    /\ UNCHANGED <<nreviews, active, args, i, reviews, runs, fetches, calls,
                   total_input_tokens, total_output_tokens, total_requests,
                   unlabeled0, run_log, log_file, log_df, log_failed>>

\* lines 82-88 of update_log: read_csv and concat.  When read_csv raises
\* anything but FileNotFoundError, log_df is unbound, line 92 raises
\* UnboundLocalError and the file is not written: the exception leaves
\* make_labels at once from line 110, through the finally block otherwise
UpdateLogRead(p) ==
    /\ UNCHANGED NotLabelingVars
    /\ pc[p] = "log_read"
    /\ \E readable \in BOOLEAN :
        IF readable
        THEN /\ log_df' = [log_df EXCEPT ![p] = read_log(log_file, report[p])]
             /\ pc' = [pc EXCEPT ![p] = "log_write"]
             /\ UNCHANGED <<report, log_failed, i, reviews, idx,
                            results_label, exit>>
        ELSE /\ log_failed' = [log_failed EXCEPT ![p] = TRUE]
             /\ report' = [report EXCEPT ![p] = NoReport]
             /\ UNCHANGED log_df
             /\ IF report[p].status = "completed"
                THEN Leave(p, "raised")
                ELSE /\ pc' = [pc EXCEPT ![p] = "finally"]
                     /\ exit' = [exit EXCEPT ![p] = "raise"]
                     /\ UNCHANGED <<i, reviews, idx, results_label>>
    /\ UNCHANGED <<nreviews, labels, active, args, total_input_tokens,
                   total_output_tokens, total_requests, runs, fetches, calls,
                   inserts, unlabeled0, run_log, log_file, clock>>

\* lines 90-92 of update_log: log_df.to_csv replaces the file; then line 111
\* (break) or the return of line 142 or 147
UpdateLogWrite(p) ==
    /\ UNCHANGED NotLabelingVars
    /\ pc[p] = "log_write"
    /\ log_file' = log_df[p]
    /\ run_log' = [run_log EXCEPT ![p] = Append(@, report[p])]
    /\ report' = [report EXCEPT ![p] = NoReport]
    /\ log_df' = [log_df EXCEPT ![p] = <<>>]
    /\ IF report[p].status = "completed"
       THEN Leave(p, "returned")
       ELSE /\ pc' = [pc EXCEPT ![p] = "finally"]
            /\ UNCHANGED <<i, reviews, idx, results_label, exit>>
    /\ UNCHANGED <<nreviews, labels, active, args, total_input_tokens,
                   total_output_tokens, total_requests, runs, fetches, calls,
                   inserts, unlabeled0, clock, log_failed>>

\* line 92 when to_csv raises (the file cannot be written): the file stays
\* as it was and the exception leaves update_log, at once from line 110,
\* through the finally block from lines 141 and 146
UpdateLogWriteFails(p) ==
    /\ UNCHANGED NotLabelingVars
    /\ pc[p] = "log_write"
    /\ log_failed' = [log_failed EXCEPT ![p] = TRUE]
    /\ report' = [report EXCEPT ![p] = NoReport]
    /\ log_df' = [log_df EXCEPT ![p] = <<>>]
    /\ IF report[p].status = "completed"
       THEN Leave(p, "raised")
       ELSE /\ pc' = [pc EXCEPT ![p] = "finally"]
            /\ exit' = [exit EXCEPT ![p] = "raise"]
            /\ UNCHANGED <<i, reviews, idx, results_label>>
    /\ UNCHANGED <<nreviews, labels, active, args, total_input_tokens,
                   total_output_tokens, total_requests, runs, fetches, calls,
                   inserts, unlabeled0, run_log, log_file, clock>>

\* lines 149-154: the finally block, then whatever left the try block
Finally(p) ==
    /\ UNCHANGED NotLabelingVars
    /\ pc[p] = "finally"
    /\ labels' = IF results_label[p] # <<>>
                 THEN insert_labels_batch(labels, results_label[p])
                 ELSE labels
    /\ inserts' = IF results_label[p] # <<>>
                  THEN [inserts EXCEPT ![p] =
                           Append(@, [ids |-> results_label[p], ok |-> TRUE])]
                  ELSE inserts
    /\ total_input_tokens' = reset_counters(total_input_tokens, p)
    /\ total_output_tokens' = reset_counters(total_output_tokens, p)
    /\ total_requests' = reset_counters(total_requests, p)
    /\ IF exit[p] = "continue"
       THEN /\ i' = [i EXCEPT ![p] = @ + 1]
            /\ pc' = [pc EXCEPT ![p] = "fetch"]
            /\ exit' = [exit EXCEPT ![p] = "none"]
            /\ UNCHANGED <<reviews, idx, results_label>>
       ELSE Leave(p, IF exit[p] = "raise" THEN "raised" ELSE "returned")
    /\ UNCHANGED <<nreviews, active, args, runs, fetches, calls, unlabeled0>>
    /\ UNCHANGED LogVars

\* line 153 raises inside the finally block: reset_counters is skipped and
\* the new exception leaves make_labels
FinallyInsertFails(p) ==
    /\ UNCHANGED NotLabelingVars
    /\ pc[p] = "finally"
    /\ results_label[p] # <<>>
    /\ inserts' = [inserts EXCEPT ![p] =
                      Append(@, [ids |-> results_label[p], ok |-> FALSE])]
    /\ Leave(p, "raised")
    /\ UNCHANGED <<nreviews, labels, active, args,
                   total_input_tokens, total_output_tokens, total_requests,
                   runs, fetches, calls, unlabeled0>>
    /\ UNCHANGED LogVars

\* no service object exists
ServiceIdle ==
    /\ active = {}
    /\ args = [p \in Procs |-> [fecth_limit |-> 1, batch_size |-> 1,
                               input_token_limit |-> 1, output_token_limit |-> 1]]
    /\ pc = [p \in Procs |-> "idle"]
    /\ i = [p \in Procs |-> 0]
    /\ reviews = [p \in Procs |-> <<>>]
    /\ idx = [p \in Procs |-> 0]
    /\ results_label = [p \in Procs |-> <<>>]
    /\ total_input_tokens = [p \in Procs |-> 0]
    /\ total_output_tokens = [p \in Procs |-> 0]
    /\ total_requests = [p \in Procs |-> 0]
    /\ exit = [p \in Procs |-> "none"]
    /\ runs = [p \in Procs |-> 0]
    /\ fetches = [p \in Procs |-> <<>>]
    /\ calls = [p \in Procs |-> <<>>]
    /\ inserts = [p \in Procs |-> <<>>]
    /\ run_log = [p \in Procs |-> <<>>]
    /\ LogInit
    /\ unlabeled0 = [p \in Procs |-> <<>>]

\* no service object and no review; the state of the other specifications
LabelingIdle ==
    /\ nreviews = 0
    /\ labels = <<>>
    /\ ServiceIdle

\* ------------------------------------- make_labels, its loops on their own
\* The control flow of make_labels (lines 101-154) against a storage that
\* may answer any fetch with any page of at most `limit` rows, for ever if it
\* likes, or raise; only the calls of the run are counted.  Every blocking
\* call (fetch, provider, bulk insert, read_csv, to_csv) is a step.

\* a loop without the iteration bound
LoopContinues_Forever(n) == TRUE

\* line 101: for i in range(0, 10000)
LoopContinues(n) == n < RangeBound

LoopIdle ==
    /\ loop_pc = "idle"
    /\ loop_i = 0
    /\ loop_fecth_limit = 1
    /\ page_len = 0
    /\ page_idx = 0
    /\ loop_exit = "none"
    /\ fetch_count = 0
    /\ call_count = 0
    /\ short_pages = 0

\* make_labels(fecth_limit=..) has just been called
LoopInit ==
    /\ loop_pc = "fetch"
    /\ loop_i = 0
    /\ loop_fecth_limit \in LoopFetchLimits
    /\ page_len = 0
    /\ page_idx = 0
    /\ loop_exit = "none"
    /\ fetch_count = 0
    /\ call_count = 0
    /\ short_pages = 0

\* the frame of make_labels is gone: the page and its position no longer
\* exist; the counts of the run stay
LoopLeave(how) ==
    /\ loop_pc' = how
    /\ page_len' = 0
    /\ page_idx' = 0
    /\ loop_exit' = "none"

\* the loop goes on at `to`, leaving make_labels when that is its end
LoopGoto(to, ex, step) ==
    IF to \in {"returned", "raised"}
    THEN LoopLeave(to)
    ELSE /\ loop_pc' = to
         /\ loop_exit' = ex
         /\ page_idx' = page_idx + step
         /\ UNCHANGED page_len

\* lines 101-113: the next value of i and one fetch; on an empty page
\* update_log("completed") is entered, with the break of line 111 to follow
FetchAnyPage ==
    /\ loop_pc = "fetch"
    /\ UNCHANGED NotLoopVars
    /\ LoopContinues(loop_i)
    /\ fetch_count' = fetch_count + 1
    /\ \E n \in 0..loop_fecth_limit :
        LET short == n > 0 /\ n < loop_fecth_limit
        IN  /\ short => short_pages < MaxShortPages
            /\ short_pages' = IF short THEN short_pages + 1 ELSE short_pages
            /\ page_len' = n
            /\ IF n = 0
               THEN /\ loop_pc' = "log_read"
                    /\ loop_exit' = "break"
                    /\ UNCHANGED page_idx
               ELSE /\ loop_pc' = "review"
                    /\ page_idx' = 1
                    /\ UNCHANGED loop_exit
    /\ UNCHANGED <<loop_i, loop_fecth_limit, call_count>>

\* lines 103-106 when the storage call raises: nothing catches it
FetchAnyPageFails ==
    /\ loop_pc = "fetch"
    /\ UNCHANGED NotLoopVars
    /\ LoopContinues(loop_i)
    /\ fetch_count' = fetch_count + 1
    /\ LoopLeave("raised")
    /\ UNCHANGED <<loop_i, loop_fecth_limit, call_count, short_pages>>

\* line 101 when range(0, 10000) is used up: the function falls off its end
RangeExhausted ==
    /\ loop_pc = "fetch"
    /\ UNCHANGED NotLoopVars
    /\ ~LoopContinues(loop_i)
    /\ LoopLeave("returned")
    /\ UNCHANGED <<loop_i, loop_fecth_limit, fetch_count, call_count,
                   short_pages>>

\* where the loop goes once a review is counted and a full buffer, if any,
\* has been sent: update_log, the next review or the finally block
AfterAnyReview(status, how) ==
    IF how = "return" /\ status # "none"
    THEN [pc |-> "log_read", exit |-> "return", step |-> 0]
    ELSE IF how = "next"
    THEN [pc |-> "review", exit |-> "none", step |-> 1]
    ELSE [pc |-> "finally", exit |-> how, step |-> 0]

\* the ways the provider call of one review can go on: to the bulk insert
\* of a full buffer, or as AfterAnyReview says
ExitsOfReview(last) ==
    {IF kind = "ok" /\ full
     THEN [pc |-> "insert", exit |-> "none", step |-> 0]
     ELSE AfterAnyReview(StatusOf(kind, FALSE, "ok"),
                         ExitOf(kind, FALSE, "ok", stop, last)) :
        kind \in {"ok", "raise", "nometa"}, full \in BOOLEAN,
        stop \in BOOLEAN}

\* the ways the bulk insert of a full buffer can go on
ExitsOfInsert(last) ==
    {AfterAnyReview(StatusOf("ok", TRUE, ins),
                    ExitOf("ok", TRUE, ins, stop, last)) :
        ins \in InsertOutcomes, stop \in BOOLEAN}

\* lines 116-133: one iteration of `for review in reviews`, its provider
\* call
ProcessAnyReview ==
    /\ loop_pc = "review"
    /\ UNCHANGED NotLoopVars
    /\ call_count' = call_count + 1
    /\ \E t \in ExitsOfReview(page_idx = page_len) :
           LoopGoto(t.pc, t.exit, t.step)
    /\ UNCHANGED <<loop_i, loop_fecth_limit, fetch_count, short_pages>>

\* lines 133-147: the bulk insert of a full buffer
InsertAnyBatch ==
    /\ loop_pc = "insert"
    /\ UNCHANGED NotLoopVars
    /\ \E t \in ExitsOfInsert(page_idx = page_len) :
           LoopGoto(t.pc, t.exit, t.step)
    /\ UNCHANGED <<loop_i, loop_fecth_limit, fetch_count, call_count,
                   short_pages>>

\* update_log fails at line 84 or 92: the exception leaves make_labels at
\* once from line 110, through the finally block from lines 141 and 146
LoopLogFails ==
    IF loop_exit = "break"
    THEN LoopLeave("raised")
    ELSE LoopGoto("finally", "raise", 0)

\* lines 82-88 of update_log: read_csv and concat
LoopLogRead ==
    /\ loop_pc = "log_read"
    /\ UNCHANGED NotLoopVars
    /\ \E readable \in BOOLEAN :
        IF readable
        THEN LoopGoto("log_write", loop_exit, 0)
        ELSE LoopLogFails
    /\ UNCHANGED <<loop_i, loop_fecth_limit, fetch_count, call_count,
                   short_pages>>

\* lines 90-92 of update_log: to_csv, then the break of line 111 or the
\* return of line 142 or 147
LoopLogWrite ==
    /\ loop_pc = "log_write"
    /\ UNCHANGED NotLoopVars
    /\ \E writable \in BOOLEAN :
        IF ~writable
        THEN LoopLogFails
        ELSE IF loop_exit = "break"
        THEN LoopLeave("returned")
        ELSE LoopGoto("finally", loop_exit, 0)
    /\ UNCHANGED <<loop_i, loop_fecth_limit, fetch_count, call_count,
                   short_pages>>

\* lines 149-154, then the next iteration, the return or the exception
LoopFinally ==
    /\ loop_pc = "finally"
    /\ UNCHANGED NotLoopVars
    /\ \E flushed \in BOOLEAN :
        \* line 153 may raise when something is left in the buffer
        IF ~flushed
        THEN LoopLeave("raised") /\ UNCHANGED loop_i
        ELSE IF loop_exit = "continue"
        THEN /\ loop_i' = loop_i + 1
             /\ LoopGoto("fetch", "none", 0)
        ELSE /\ LoopLeave(IF loop_exit = "raise" THEN "raised"
                          ELSE "returned")
             /\ UNCHANGED loop_i
    /\ UNCHANGED <<loop_fecth_limit, fetch_count, call_count, short_pages>>

NextLoop ==
    \/ FetchAnyPage
    \/ FetchAnyPageFails
    \/ RangeExhausted
    \/ ProcessAnyReview
    \/ InsertAnyBatch
    \/ LoopLogRead
    \/ LoopLogWrite
    \/ LoopFinally


\* =========================================================================
\* GeminiFlashLite25Provider: parser_label and process_label
\* =========================================================================
\* Numbers are kept in tenths: 10 is 1.0, -15 is -1.5.
Nums == {-15, -10, 0, 10, 15}

\* the aspect names of a batch, in order
AspectNames == <<"food", "service", "price", "ambience", "value">>

\* a JSON scalar inside an array: a number, null or a string
Elem == [t : {"num"}, v : Nums] \cup [t : {"null", "str"}, v : {0}]

ElemSeqs == UNION {[1..n -> Elem] : n \in 0..MaxAspects}

\* one element of the outer array: an array of scalars, or something else
Items == [t : {"list"}, items : ElemSeqs] \cup [t : {"other"}, items : {<<>>}]

EmptyList == [t |-> "list", items |-> <<>>]

\* lines 161 and 163: the keys process_label reads from response.to_dict()
MetadataKeys == {"usage_metadata", "model_version"}

\* response.text (not JSON at all, a JSON value that is no array, or an
\* array) and the keys response.to_dict() carries
Responses ==
    [kind : {"notjson", "scalar"}, items : {<<>>}, keys : SUBSET MetadataKeys] \cup
    [kind : {"list"}, items : [1..2 -> Items], keys : SUBSET MetadataKeys] \cup
    [kind : {"list"}, items : {<<>>, <<EmptyList>>,
                               <<EmptyList, EmptyList, EmptyList>>},
     keys : SUBSET MetadataKeys]

\* the lower bound is not checked
ScoreCheck_NoLower(s) ==
    IF s.t = "null" THEN "ok"
    ELSE IF s.t # "num" THEN "TypeError"
    ELSE IF s.v <= 10 THEN "ok"
    ELSE "ValueError"

\* line 103: s is not None and not (-1.0 <= s <= 1.0); comparing a string
\* with a float raises TypeError
ScoreCheck(s) ==
    IF s.t = "null" THEN "ok"
    ELSE IF s.t # "num" THEN "TypeError"
    ELSE IF -10 <= s.v /\ s.v <= 10 THEN "ok"
    ELSE "ValueError"

\* null is let through, as it is for a score
ConfidenceCheck_AllowNull(c) ==
    IF c.t = "null" THEN "ok"
    ELSE IF c.t # "num" THEN "TypeError"
    ELSE IF 0 <= c.v /\ c.v <= 10 THEN "ok"
    ELSE "ValueError"

\* line 106: not (0.0 <= c <= 1.0); None or a string raises TypeError
ConfidenceCheck(c) ==
    IF c.t # "num" THEN "TypeError"
    ELSE IF 0 <= c.v /\ c.v <= 10 THEN "ok"
    ELSE "ValueError"

\* lines 102-104: the loop raises at the first score failing its check
scores_loop(s) ==
    LET bad == {n \in 1..Len(s) : ScoreCheck(s[n]) # "ok"}
    IN  IF bad = {} THEN "ok"
        ELSE ScoreCheck(s[CHOOSE n \in bad : \A m \in bad : n <= m])

\* lines 105-107: the loop raises at the first confidence failing its check
confidences_loop(s) ==
    LET bad == {n \in 1..Len(s) : ConfidenceCheck(s[n]) # "ok"}
    IN  IF bad = {} THEN "ok"
        ELSE ConfidenceCheck(s[CHOOSE n \in bad : \A m \in bad : n <= m])

\* only one of the two arrays has to have the right length
LengthsMatch_Either(scores, confidences, n) ==
    Len(scores) = n \/ Len(confidences) = n

\* line 100
LengthsMatch(scores, confidences, n) ==
    Len(scores) = n /\ Len(confidences) = n

\* lines 88-108; the result is the exception raised or "ok" with both arrays
parser_label(resp, asp) ==
    LET fail(e) == [status |-> e, scores |-> <<>>, confidences |-> <<>>]
    IN  IF resp.kind = "notjson" THEN fail("ValueError")
        ELSE IF ~(resp.kind = "list" /\ Len(resp.items) = 2) THEN fail("ValueError")
        ELSE LET scores      == resp.items[1]
                 confidences == resp.items[2]
             IN  IF ~(scores.t = "list" /\ confidences.t = "list")
                 THEN fail("ValueError")
                 ELSE IF ~LengthsMatch(scores.items, confidences.items, Len(asp))
                 THEN fail("ValueError")
                 ELSE IF scores_loop(scores.items) # "ok"
                 THEN fail(scores_loop(scores.items))
                 ELSE IF confidences_loop(confidences.items) # "ok"
                 THEN fail(confidences_loop(confidences.items))
                 ELSE [status |-> "ok", scores |-> scores.items,
                       confidences |-> confidences.items]

\* index of the last occurrence of name a in asp (a dict keeps the last write)
LastIndex(asp, a) ==
    CHOOSE n \in 1..Len(asp) :
        asp[n] = a /\ \A m \in (n + 1)..Len(asp) : asp[m] # a

\* lines 160-163: response_dict['usage_metadata'] and
\* response_dict['model_version'] raise KeyError on a missing key
response_metadata(resp) ==
    IF "usage_metadata" \notin resp.keys THEN "KeyError"
    ELSE IF "model_version" \notin resp.keys THEN "KeyError"
    ELSE "ok"

\* lines 145-169: the exception of the parser is re-raised; otherwise the
\* labels dict is built, the metadata is read from response.to_dict() and
\* the LabelResult is returned
process_label(resp, asp) ==
    LET parsed == parser_label(resp, asp)
    IN  IF parsed.status # "ok"
        THEN [status |-> parsed.status, labels |-> <<>>]
        ELSE IF Len(parsed.scores) < Len(asp) \/ Len(parsed.confidences) < Len(asp)
        THEN [status |-> "IndexError", labels |-> <<>>]
        ELSE IF response_metadata(resp) # "ok"
        THEN [status |-> response_metadata(resp), labels |-> <<>>]
        ELSE [status |-> "ok",
              labels |-> [a \in Range(asp) |->
                            [score |-> parsed.scores[LastIndex(asp, a)],
                             confidence |-> parsed.confidences[LastIndex(asp, a)]]]]

NoResult == [status |-> "none", labels |-> <<>>]

ProviderIdle ==
    /\ aspects = <<>>
    /\ response = [kind |-> "notjson", items |-> <<>>, keys |-> {}]
    /\ label_result = NoResult

\* a provider built for the first n aspect names, and the text the model returns
ProviderInit ==
    /\ \E n \in 1..MaxAspects : aspects = SubSeq(AspectNames, 1, n)
    /\ response \in Responses
    /\ label_result = NoResult

\* process_label(review_text) on that response
ProcessLabel ==
    /\ label_result = NoResult
    /\ label_result' = process_label(response, aspects)
    /\ UNCHANGED <<aspects, response>>
    /\ UNCHANGED NotProviderVars

\* =========================================================================
\* DataFactory: create and reset
\* =========================================================================
\* lines 67 and 73: the accepted data_type and client_type values
DataTypes == {"review", "batch", "label"}

ClientTypes == {"supabase", "postgres"}

Keys == DataTypes \X ClientTypes

\* arguments a caller may pass; "aspect" and "mysql" are not accepted values
DataTypeArgs == DataTypes \cup {"aspect"}

ClientTypeArgs == ClientTypes \cup {"mysql"}

\* the logger argument; "None" is Python's None
Loggers == {"None", "logger1", "logger2"}

NoInstance == [id |-> 0, kind |-> "None", logger |-> "None"]

\* the keys of the _instances dict
Cached(inst) == {k \in Keys : inst[k] # NoInstance}

\* lines 116-162: what building a Supabase data instance does.  built counts
\* the create_client calls; the module named in the 'batch' import does not
\* exist in the package, so that import raises after the client is built.
create_supabase_instance(data_type, logger, creds, nid) ==
    IF ~creds
    THEN [status |-> "ValueError", built |-> 0, instance |-> NoInstance]
    ELSE IF data_type \in {"review", "label"}
    THEN [status |-> "ok", built |-> 1,
          instance |-> [id |-> nid, kind |-> data_type, logger |-> logger]]
    ELSE IF data_type = "batch"
    THEN [status |-> "ModuleNotFoundError", built |-> 1, instance |-> NoInstance]
    ELSE [status |-> "ValueError", built |-> 1, instance |-> NoInstance]

\* lines 164-184
create_postgres_instance(data_type, logger) ==
    [status |-> "NotImplementedError", built |-> 0, instance |-> NoInstance]

\* lines 91-114
create_instance(data_type, client_type, logger, creds, nid) ==
    IF client_type = "supabase"
    THEN create_supabase_instance(data_type, logger, creds, nid)
    ELSE IF client_type = "postgres"
    THEN create_postgres_instance(data_type, logger)
    ELSE [status |-> "ValueError", built |-> 0, instance |-> NoInstance]

\* every call builds a new instance and overwrites the cached one
create_NoCache(inst, data_type, client_type, logger, creds, nid) ==
    IF data_type \notin DataTypes \/ client_type \notin ClientTypes
    THEN [status |-> "ValueError", built |-> 0, result |-> NoInstance,
          instances |-> inst]
    ELSE LET key == <<data_type, client_type>>
             made == create_instance(data_type, client_type, logger, creds, nid)
         IN  [status |-> made.status, built |-> made.built,
              result |-> made.instance,
              instances |-> IF made.status = "ok"
                            THEN [inst EXCEPT ![key] = made.instance]
                            ELSE inst]

\* a failed build throws the whole cache away
create_DropCacheOnError(inst, data_type, client_type, logger, creds, nid) ==
    IF data_type \notin DataTypes \/ client_type \notin ClientTypes
    THEN [status |-> "ValueError", built |-> 0, result |-> NoInstance,
          instances |-> inst]
    ELSE LET key == <<data_type, client_type>>
         IN  IF key \in Cached(inst)
             THEN [status |-> "ok", built |-> 0, result |-> inst[key],
                   instances |-> inst]
             ELSE LET made == create_instance(data_type, client_type, logger,
                                              creds, nid)
                  IN  [status |-> made.status, built |-> made.built,
                       result |-> made.instance,
                       instances |-> IF made.status = "ok"
                                     THEN [inst EXCEPT ![key] = made.instance]
                                     ELSE [k \in Keys |-> NoInstance]]

\* lines 41-89: DataFactory.create
create(inst, data_type, client_type, logger, creds, nid) ==
    IF data_type \notin DataTypes \/ client_type \notin ClientTypes
    THEN [status |-> "ValueError", built |-> 0, result |-> NoInstance,
          instances |-> inst]
    ELSE LET key == <<data_type, client_type>>
         IN  IF key \in Cached(inst)
             THEN [status |-> "ok", built |-> 0, result |-> inst[key],
                   instances |-> inst]
             ELSE LET made == create_instance(data_type, client_type, logger,
                                              creds, nid)
                  IN  [status |-> made.status, built |-> made.built,
                       result |-> made.instance,
                       instances |-> IF made.status = "ok"
                                     THEN [inst EXCEPT ![key] = made.instance]
                                     ELSE inst]

\* a key is removed as soon as one of the given arguments matches
keys_to_remove_AnyMatch(inst, data_type, client_type) ==
    IF data_type = "None" /\ client_type = "None" THEN Cached(inst)
    ELSE {key \in Cached(inst) :
             \/ (data_type # "None" /\ key[1] = data_type)
             \/ (client_type # "None" /\ key[2] = client_type)}

\* lines 208-217; with both arguments None every key is cleared
keys_to_remove(inst, data_type, client_type) ==
    IF data_type = "None" /\ client_type = "None" THEN Cached(inst)
    ELSE {key \in Cached(inst) :
             /\ (data_type = "None" \/ key[1] = data_type)
             /\ (client_type = "None" \/ key[2] = client_type)}

\* lines 186-219: DataFactory.reset
reset(inst, data_type, client_type) ==
    [key \in Keys |->
        IF key \in keys_to_remove(inst, data_type, client_type)
        THEN NoInstance ELSE inst[key]]
\* =========================================================================
\* LabelingService.__init__ and the constructors it calls
\* =========================================================================
\* provider_factory.py lines 9-11: the registered provider names
Providers == {"gemini-2.5-flash-lite"}

ProviderArgs == Providers \cup {"gpt-4"}

\* base_repository.py lines 23-36: client is a required parameter
BaseRepository_init(client_given) ==
    IF client_given THEN "ok" ELSE "TypeError"

\* review_repository.py lines 29-50 (batch and label repositories alike):
\* super().__init__(logger=logger) passes no client, then DataFactory.create
Repository_init(inst, data_type, client_type, logger, creds, nid) ==
    IF BaseRepository_init(FALSE) # "ok"
    THEN [status |-> "TypeError", built |-> 0, result |-> NoInstance,
          instances |-> inst]
    ELSE create(inst, data_type, client_type, logger, creds, nid)

\* batch_repository.py lines 42-57: reads self._logger, which no constructor sets
get_batch_aspects == "AttributeError"

\* provider_factory.py lines 25-46: for an unknown name the except branch
\* calls the instance method _log on the class, which raises TypeError
ProviderFactory_create(provider, model_found) ==
    IF provider \notin Providers THEN "TypeError"
    ELSE IF model_found THEN "ok" ELSE "ValueError"

\* the names are only stored; nothing is validated until first use
LabelingService_init_Lazy(inst, provider, client_type, logger, creds, model_found, nid) ==
    [status |-> "ok", instances |-> inst]

\* labeling_service.py lines 30-56
LabelingService_init(inst, provider, client_type, logger, creds, model_found, nid) ==
    LET r1 == Repository_init(inst, "review", client_type, logger, creds, nid)
        r2 == Repository_init(r1.instances, "batch", client_type, logger, creds,
                              nid + 1)
        r3 == Repository_init(r2.instances, "label", client_type, logger, creds,
                              nid + 2)
    IN  IF r1.status # "ok" THEN [status |-> r1.status, instances |-> r1.instances]
        ELSE IF r2.status # "ok"
        THEN [status |-> r2.status, instances |-> r2.instances]
        ELSE IF r3.status # "ok"
        THEN [status |-> r3.status, instances |-> r3.instances]
        ELSE IF get_batch_aspects # "ok"
        THEN [status |-> get_batch_aspects, instances |-> r3.instances]
        ELSE [status |-> ProviderFactory_create(provider, model_found),
              instances |-> r3.instances]

\* lines 221-243: cls._instances.get(key); None when the key is not cached
get_instance(inst, data_type, client_type) ==
    LET key == <<data_type, client_type>>
    IN  [result |-> IF key \in Keys THEN inst[key] ELSE NoInstance,
         instances |-> inst]

\* lines 245-257: cls._instances.copy()
list_instances(inst) ==
    [result |-> [key \in Cached(inst) |-> inst[key]], instances |-> inst]

\* ------------------------------------------------------------ actions
NoCall ==
    [op |-> "none", data_type |-> "None", client_type |-> "None",
     logger |-> "None", creds |-> FALSE, provider |-> "None", status |-> "none",
     result |-> NoInstance, before |-> [key \in Keys |-> NoInstance],
     prior |-> [id |-> 0, given |-> "None"], builds |-> 0, listed |-> {}]

NoReturn == [id |-> 0, given |-> "None"]

\* a reset with these arguments is a reset of this key
ResetCovers(key, data_type, client_type) ==
    /\ (data_type = "None" \/ key[1] = data_type)
    /\ (client_type = "None" \/ key[2] = client_type)

\* the class attribute _instances = {} when the module is loaded
FactoryInit ==
    /\ instances = [key \in Keys |-> NoInstance]
    /\ next_id = 1
    /\ ops = 0
    /\ last_call = NoCall
    /\ returned = [key \in Keys |-> NoReturn]
    /\ built = [key \in Keys |-> 0]
    /\ retired = {}

\* DataFactory.create(data_type, client_type, logger) with the credentials
\* set or not set in the environment
Create(data_type, client_type, logger, creds) ==
    /\ ops < MaxOps
    /\ LET r   == create(instances, data_type, client_type, logger, creds, next_id)
           key == <<data_type, client_type>>
           known == key \in Keys
       IN  /\ instances' = r.instances
           /\ next_id' = IF r.status = "ok" /\ r.result.id = next_id
                         THEN next_id + 1 ELSE next_id
           /\ returned' = IF known /\ r.status = "ok" /\ returned[key] = NoReturn
                          THEN [returned EXCEPT
                                   ![key] = [id |-> r.result.id, given |-> logger]]
                          ELSE returned
           /\ built' = IF known THEN [built EXCEPT ![key] = @ + r.built]
                       ELSE built
           /\ last_call' = [NoCall EXCEPT
                          !.op = "create", !.data_type = data_type,
                          !.client_type = client_type, !.logger = logger,
                          !.creds = creds, !.status = r.status,
                          !.result = r.result, !.before = instances,
                          !.prior = IF known THEN returned[key] ELSE NoReturn,
                          !.builds = IF known THEN built[key] + r.built ELSE 0]
    /\ ops' = ops + 1
    /\ UNCHANGED retired
    /\ UNCHANGED NotFactoryVars

\* DataFactory.reset(data_type, client_type); "None" is an argument not given
Reset(data_type, client_type) ==
    /\ ops < MaxOps
    /\ instances' = reset(instances, data_type, client_type)
    /\ retired' = retired \cup
                  {instances[key] : key \in Cached(instances) \ Cached(instances')}
    /\ returned' = [key \in Keys |->
                      IF ResetCovers(key, data_type, client_type)
                      THEN NoReturn ELSE returned[key]]
    /\ built' = [key \in Keys |->
                   IF ResetCovers(key, data_type, client_type)
                   THEN 0 ELSE built[key]]
    /\ last_call' = [NoCall EXCEPT !.op = "reset", !.data_type = data_type,
                              !.client_type = client_type, !.status = "ok",
                              !.before = instances]
    /\ ops' = ops + 1
    /\ UNCHANGED next_id
    /\ UNCHANGED NotFactoryVars

\* LabelingService(batch_id, provider, client_type, logger)
Construct(provider, client_type, logger, creds, model_found) ==
    /\ ops < MaxOps
    /\ LET r == LabelingService_init(instances, provider, client_type, logger,
                                     creds, model_found, next_id)
       IN  /\ instances' = r.instances
           /\ next_id' = next_id + Cardinality(Cached(r.instances) \ Cached(instances))
           /\ last_call' = [NoCall EXCEPT
                          !.op = "construct", !.provider = provider,
                          !.client_type = client_type, !.logger = logger,
                          !.creds = creds, !.status = r.status,
                          !.before = instances]
    /\ ops' = ops + 1
    /\ UNCHANGED <<returned, built, retired>>
    /\ UNCHANGED NotFactoryVars

\* DataFactory.get_instance(data_type, client_type)
GetInstance(data_type, client_type) ==
    /\ ops < MaxOps
    /\ LET r == get_instance(instances, data_type, client_type)
       IN  /\ instances' = r.instances
           /\ last_call' = [NoCall EXCEPT
                          !.op = "get_instance", !.data_type = data_type,
                          !.client_type = client_type, !.status = "ok",
                          !.result = r.result, !.before = instances]
    /\ ops' = ops + 1
    /\ UNCHANGED <<next_id, returned, built, retired>>
    /\ UNCHANGED NotFactoryVars

\* DataFactory.list_instances()
ListInstances ==
    /\ ops < MaxOps
    /\ LET r == list_instances(instances)
       IN  /\ instances' = r.instances
           /\ last_call' = [NoCall EXCEPT
                          !.op = "list_instances", !.status = "ok",
                          !.before = instances,
                          !.listed = DOMAIN r.result]
    /\ ops' = ops + 1
    /\ UNCHANGED <<next_id, returned, built, retired>>
    /\ UNCHANGED NotFactoryVars

NextFactory ==
    \/ \E data_type \in DataTypeArgs, client_type \in ClientTypeArgs,
          logger \in Loggers, creds \in BOOLEAN :
            Create(data_type, client_type, logger, creds)
    \/ \E data_type \in DataTypes \cup {"None"},
          client_type \in ClientTypes \cup {"None"} :
            Reset(data_type, client_type)
    \/ \E provider \in ProviderArgs, client_type \in ClientTypeArgs,
          logger \in Loggers, creds \in BOOLEAN, model_found \in BOOLEAN :
            Construct(provider, client_type, logger, creds, model_found)
    \/ \E data_type \in DataTypeArgs, client_type \in ClientTypeArgs :
            GetInstance(data_type, client_type)
    \/ ListInstances

\* =========================================================================
\* ReviewRepository: get_unlabeled_reviews and bulk_update_labels
\* =========================================================================
\* an int argument that may also be None
None == [t |-> "None", v |-> 0]

IntVal(n) == [t |-> "int", v |-> n]

IntArgs == {None} \cup {IntVal(n) : n \in -1..2}

\* what the data layer's get_unlabeled_reviews does: a page, or it raises
FetchOutcomes ==
    [status : {"ok"}, page : {<<>>, <<1>>, <<1, 2>>}] \cup
    [status : {"Exception"}, page : {<<>>}]

\* one input entry: update.get('review_id'), update.get('labels') and
\* update.get('metadata'); a missing key reads as None, "empty" is {}
UpdateEntries ==
    [review_id : {None, IntVal(0), IntVal(1), IntVal(2)},
     labels : {"None", "empty", "labels"},
     metadata : {"None", "empty", "metadata"}]

UpdateLists == UNION {[1..n -> UpdateEntries] : n \in 0..MaxUpdates}

\* base_repository.py lines 51-63
validate_not_none(value) ==
    IF value = None THEN "ValueError" ELSE "ok"

\* zero passes
validate_positive_AllowZero(value) ==
    IF value = None THEN "TypeError"
    ELSE IF value.v < 0 THEN "ValueError" ELSE "ok"

\* base_repository.py lines 65-77; None <= 0 raises TypeError
validate_positive(value) ==
    IF value = None THEN "TypeError"
    ELSE IF value.v <= 0 THEN "ValueError" ELSE "ok"

\* review_repository.py lines 53-103: the outcome and the data layer calls
get_unlabeled_reviews_repo(batch_id, limit, offset, outcome) ==
    LET raise(e) == [status |-> e, value |-> <<>>, calls |-> <<>>]
    IN  IF validate_not_none(batch_id) # "ok"
        THEN raise(validate_not_none(batch_id))
        ELSE IF validate_positive(batch_id) # "ok"
        THEN raise(validate_positive(batch_id))
        ELSE IF validate_positive(limit) # "ok"
        THEN raise(validate_positive(limit))
        ELSE [status |-> outcome.status, value |-> outcome.page,
              calls |-> <<[batch_id |-> batch_id, limit |-> limit,
                           offset |-> offset]>>]

\* Python truth value of an int-or-None and of a dict-or-None
TruthyInt(x) == x \notin {None, IntVal(0)}

TruthyDict(x) == x \notin {"None", "empty"}

\* only a missing key is skipped; zero and {} are let through
Skipped_OnlyNone(update) ==
    update.review_id = None \/ update.labels = "None"

\* line 257: not review_id or not labels
Skipped(update) ==
    ~TruthyInt(update.review_id) \/ ~TruthyDict(update.labels)

\* lines 264-272: the dict sent for one entry; metadata only when truthy
update_data(update) ==
    [id |-> update.review_id, labels |-> update.labels, labeled_at |-> "utcnow",
     metadata |-> IF TruthyDict(update.metadata) THEN update.metadata
                  ELSE "absent"]

RECURSIVE bulk_updates(_)
\* lines 251-272: the loop that prepares the list
bulk_updates(updates) ==
    IF updates = <<>> THEN <<>>
    ELSE IF Skipped(Head(updates)) THEN bulk_updates(Tail(updates))
    ELSE <<update_data(Head(updates))>> \o bulk_updates(Tail(updates))

\* lines 205-282: count is what the data layer returns, -1 when it raises
bulk_update_labels(updates, count) ==
    IF updates = <<>>
    THEN [status |-> "ok", value |-> 0, calls |-> <<>>]
    ELSE [status |-> IF count < 0 THEN "Exception" ELSE "ok",
          value |-> IF count < 0 THEN 0 ELSE count,
          calls |-> <<bulk_updates(updates)>>]

\* ---- ReviewDataSupabaseClient.bulk_update_reviews
\* one element of its input: update.get('id'); a missing key reads as None
DataUpdates == [id : {None, IntVal(0), IntVal(1), IntVal(2)}]

DataUpdateLists == UNION {[1..n -> DataUpdates] : n \in 0..MaxUpdates}

\* a failed update ends the whole call with the exception
AfterUpdate_Abort(ok) == IF ok THEN "counted" ELSE "raise"

\* review_data_supabase_client.py lines 220-231: success_count += 1, or the
\* exception is logged and the loop continues
AfterUpdate(ok) == IF ok THEN "counted" ELSE "continue"

\* lines 209-216: the position of the next update after pos that has an id
\* (`if not review_id: continue` skips the others), 0 when there is none
next_update(updates, pos) ==
    LET rest == {n \in pos + 1..Len(updates) : TruthyInt(updates[n].id)}
    IN  IF rest = {} THEN 0 ELSE CHOOSE n \in rest : \A m \in rest : n <= m

\* lines 209-240: the loop from after update pos up to the answer of its
\* next storage call, and on to the return when no update with an id is
\* left; storage[n] tells whether the n-th update, when it is executed,
\* succeeds; attempted collects the ids sent to storage so far
bulk_update_loop(updates, storage, pos, success_count, attempted) ==
    LET n == next_update(updates, pos)
    IN  IF n = 0
        THEN [status |-> "ok", value |-> success_count,
              attempted |-> attempted, pos |-> Len(updates)]
        ELSE IF AfterUpdate(storage[n]) = "raise"
        THEN [status |-> "Exception", value |-> 0,
              attempted |-> Append(attempted, updates[n].id), pos |-> n]
        ELSE [status |-> IF next_update(updates, n) = 0 THEN "ok"
                         ELSE "running",
              value |-> IF AfterUpdate(storage[n]) = "counted"
                        THEN success_count + 1 ELSE success_count,
              attempted |-> Append(attempted, updates[n].id),
              pos |-> IF next_update(updates, n) = 0 THEN Len(updates)
                      ELSE n]

\* lines 184-222: the call, up to the answer of its first storage call
bulk_update_reviews(updates, storage) ==
    IF updates = <<>>
    THEN [status |-> "ok", value |-> 0, attempted |-> <<>>, pos |-> 0]
    ELSE bulk_update_loop(updates, storage, 0, 0, <<>>)

NoRepoCall ==
    [op |-> "none", batch_id |-> None, limit |-> None, offset |-> None,
     outcome |-> [status |-> "ok", page |-> <<>>], updates |-> <<>>,
     count |-> 0, status |-> "none", value |-> <<>>,
     storage |-> <<>>, attempted |-> <<>>, review_id |-> 0, pos |-> 0]

RepoInit ==
    /\ repo_call = NoRepoCall
    /\ fetched = <<>>
    /\ forwarded = <<>>

\* repo.get_unlabeled_reviews(batch_id, limit, offset)
GetUnlabeledReviews(batch_id, limit, offset, outcome) ==
    /\ repo_call = NoRepoCall
    /\ LET r == get_unlabeled_reviews_repo(batch_id, limit, offset, outcome)
       IN  /\ repo_call' = [NoRepoCall EXCEPT
                               !.op = "get_unlabeled_reviews",
                               !.batch_id = batch_id, !.limit = limit,
                               !.offset = offset, !.outcome = outcome,
                               !.status = r.status, !.value = r.value]
           /\ fetched' = r.calls
    /\ UNCHANGED forwarded
    /\ UNCHANGED NotRepoVars

\* repo.bulk_update_labels(updates)
BulkUpdateLabels(updates, count) ==
    /\ repo_call = NoRepoCall
    /\ count <= Len(updates)
    /\ LET r == bulk_update_labels(updates, count)
       IN  /\ repo_call' = [NoRepoCall EXCEPT
                               !.op = "bulk_update_labels",
                               !.updates = updates, !.count = count,
                               !.status = r.status, !.value = r.value]
           /\ forwarded' = r.calls
    /\ UNCHANGED fetched
    /\ UNCHANGED NotRepoVars

\* data.bulk_update_reviews(updates) on a storage whose n-th update
\* succeeds or raises as storage[n] says: the call and its first storage
\* round trip; status "running" while updates with an id are left
BulkUpdateReviews(updates, storage) ==
    /\ repo_call = NoRepoCall
    /\ LET r == bulk_update_reviews(updates, storage)
       IN  repo_call' = [NoRepoCall EXCEPT
                            !.op = "bulk_update_reviews",
                            !.updates = updates, !.storage = storage,
                            !.status = r.status, !.value = r.value,
                            !.attempted = r.attempted, !.pos = r.pos]
    /\ UNCHANGED <<fetched, forwarded>>
    /\ UNCHANGED NotRepoVars

\* the next storage round trip of a bulk_update_reviews call in progress
BulkUpdateNext ==
    /\ repo_call.op = "bulk_update_reviews"
    /\ repo_call.status = "running"
    /\ LET r == bulk_update_loop(repo_call.updates, repo_call.storage,
                                 repo_call.pos, repo_call.value,
                                 repo_call.attempted)
       IN  repo_call' = [repo_call EXCEPT
                            !.status = r.status, !.value = r.value,
                            !.attempted = r.attempted, !.pos = r.pos]
    /\ UNCHANGED <<fetched, forwarded>>
    /\ UNCHANGED NotRepoVars

\* data.insert_label(review_id, label) on a storage that takes the row or
\* raises; the exception is logged and raised again
InsertLabel(review_id, ok) ==
    /\ repo_call = NoRepoCall
    /\ review_id \in 1..nreviews
    /\ labels' = IF ok THEN insert_label(labels, review_id) ELSE labels
    /\ repo_call' = [NoRepoCall EXCEPT
                        !.op = "insert_label", !.review_id = review_id,
                        !.status = IF ok THEN "ok" ELSE "Exception"]
    /\ UNCHANGED <<fetched, forwarded, nreviews>>
    /\ UNCHANGED <<ServiceVars, ProviderVars, FactoryVars, LoopVars>>

\* one call is made on a repository or data layer object
NextRepo ==
    \/ /\ repo_call = NoRepoCall
       /\ \E batch_id \in IntArgs, limit \in IntArgs,
             offset \in {IntVal(n) : n \in -1..1}, outcome \in FetchOutcomes :
               GetUnlabeledReviews(batch_id, limit, offset, outcome)
    \/ /\ repo_call = NoRepoCall
       /\ \E updates \in UpdateLists, count \in -1..MaxUpdates :
               BulkUpdateLabels(updates, count)
    \/ /\ repo_call = NoRepoCall
       /\ \E updates \in DataUpdateLists :
             \E storage \in [1..Len(updates) -> BOOLEAN] :
               BulkUpdateReviews(updates, storage)
    \/ BulkUpdateNext
    \/ /\ repo_call = NoRepoCall
       /\ \E review_id \in 1..nreviews, ok \in BOOLEAN :
               InsertLabel(review_id, ok)

\* no service object; a batch of one or two reviews without labels
InitRepo ==
    /\ nreviews \in SharedBatchSizes
    /\ labels = [r \in 1..nreviews |-> 0]
    /\ ServiceIdle /\ ProviderIdle /\ FactoryInit /\ RepoInit /\ LoopIdle

SpecRepo == InitRepo /\ [][NextRepo]_vars

\* two service objects for the same batch, each invoked by its own caller
\* with the same arguments; nothing orders their steps.  A batch of two
\* reviews is fetched one review a page.
LabelingInitConcurrent ==
    /\ nreviews \in SharedBatchSizes
    /\ labels = [r \in 1..nreviews |-> 0]
    /\ active = Procs
    /\ args \in [Procs -> ArgSet]
    /\ args[1] = args[2]
    /\ args[1].fecth_limit \in SharedBatchSizes
    /\ nreviews * args[1].fecth_limit \in SharedBatchSizes
    /\ args[1].batch_size \in SharedBatchSizes
    /\ args[1].input_token_limit = MaxLimit
    /\ \A l \in OutLimits : args[1].output_token_limit >= l
    /\ pc = [p \in Procs |-> "idle"]
    /\ i = [p \in Procs |-> 0]
    /\ reviews = [p \in Procs |-> <<>>]
    /\ idx = [p \in Procs |-> 0]
    /\ results_label = [p \in Procs |-> <<>>]
    /\ total_input_tokens = [p \in Procs |-> 0]
    /\ total_output_tokens = [p \in Procs |-> 0]
    /\ total_requests = [p \in Procs |-> 0]
    /\ exit = [p \in Procs |-> "none"]
    /\ runs = [p \in Procs |-> 0]
    /\ fetches = [p \in Procs |-> <<>>]
    /\ calls = [p \in Procs |-> <<>>]
    /\ inserts = [p \in Procs |-> <<>>]
    /\ run_log = [p \in Procs |-> <<>>]
    /\ LogInit
    /\ unlabeled0 = [p \in Procs |-> <<>>]

InitConcurrent ==
    LabelingInitConcurrent /\ ProviderIdle /\ FactoryInit /\ RepoInit /\ LoopIdle

InitFactory == LabelingIdle /\ ProviderIdle /\ FactoryInit /\ RepoInit /\ LoopIdle

SpecFactory == InitFactory /\ [][NextFactory]_vars

InitProvider == LabelingIdle /\ ProviderInit /\ FactoryInit /\ RepoInit /\ LoopIdle

SpecProvider == InitProvider /\ [][ProcessLabel]_vars

Init == LabelingInit /\ ProviderIdle /\ FactoryInit /\ RepoInit /\ LoopIdle

Next ==
    \E p \in Procs :
        \/ Invoke(p)
        \/ FetchPage(p)
        \/ FetchPageFails(p)
        \/ ProcessReview(p)
        \/ InsertBatch(p)
        \/ UpdateLogRead(p)
        \/ UpdateLogWrite(p)
        \/ UpdateLogWriteFails(p)
        \/ Finally(p)
        \/ FinallyInsertFails(p)

\* each service object runs make_labels once
NextOnce ==
    \E p \in Procs :
        \/ (runs[p] = 0 /\ Invoke(p))
        \/ FetchPage(p)
        \/ FetchPageFails(p)
        \/ ProcessReview(p)
        \/ InsertBatch(p)
        \/ UpdateLogRead(p)
        \/ UpdateLogWrite(p)
        \/ UpdateLogWriteFails(p)
        \/ Finally(p)
        \/ FinallyInsertFails(p)

\* one service object, one run, every choice of batch and arguments
Spec == Init /\ [][NextOnce]_vars

\* one service object whose make_labels is called again and again on a
\* batch of at most two reviews, with pages and write batches of at most
\* two and the largest token limits
InitRepeat ==
    /\ Init
    /\ nreviews \in SharedBatchSizes
    /\ args[1].fecth_limit \in SharedBatchSizes
    /\ args[1].batch_size \in SharedBatchSizes
    /\ args[1].input_token_limit = MaxLimit
    /\ \A l \in OutLimits : args[1].output_token_limit >= l

SpecRepeat == InitRepeat /\ [][Next]_vars

InitLoop == LabelingIdle /\ ProviderIdle /\ FactoryInit /\ RepoInit /\ LoopInit

\* every storage call and every provider call returns, and the one thread
\* that runs make_labels goes on whenever it can
SpecLoop == InitLoop /\ [][NextLoop]_vars /\ WF_LoopVars(NextLoop)

\* two service objects on one batch, each running make_labels once
SpecConcurrent == InitConcurrent /\ [][NextOnce]_vars

\* ------------------------------------------------------- run histories
OkCalls(p)    == SelectSeq(calls[p], LAMBDA c : c.kind = "ok")
AllCallsOk(p) == \A n \in 1..Len(calls[p]) : calls[p][n].kind = "ok"
StorageOk(p)  == /\ \A n \in 1..Len(inserts[p]) : inserts[p][n].ok
                 /\ \A n \in 1..Len(fetches[p]) : fetches[p][n].ok
                 /\ ~log_failed[p]
Statuses(p)   == {run_log[p][n].status : n \in 1..Len(run_log[p])}
\* review ids handed to insert_labels_batch during this run, in order
Inserted(p)   == Flatten([n \in 1..Len(inserts[p]) |-> inserts[p][n].ids])
CallIds(cs)   == [n \in 1..Len(cs) |-> cs[n].id]

RECURSIVE Chunks(_, _)
\* s cut into consecutive pieces of length b, the last one shorter
Chunks(s, b) ==
    IF s = <<>> THEN <<>>
    ELSE IF Len(s) <= b THEN <<s>>
    ELSE <<SubSeq(s, 1, b)>> \o Chunks(SubSeq(s, b + 1, Len(s)), b)

\* ------------------------------------------------------------------ C1
\* C1: a run that ends `completed` with no provider failure, no missing
\* usage metadata, no budget stop and working storage has persisted a label
\* for every review that was unlabeled when it started.
C1_CompletedLabelsEverything ==
    \A p \in Procs :
        (/\ pc[p] = "returned"
         /\ Statuses(p) = {"completed"}
         /\ AllCallsOk(p) /\ StorageOk(p))
        => \A r \in Range(unlabeled0[p]) : labels[r] > 0

\* ------------------------------------------------------------------ C2
\* C2: with 0 < k < fecth_limit unlabeled reviews and no provider error,
\* missing metadata or budget stop, and with storage and the log file
\* working, the run fetches one non-empty page, then one empty page, and
\* ends with a single `completed` row.
C2_OnePageThenEmpty ==
    \A p \in Procs :
        LET k == Len(unlabeled0[p])
        IN  (/\ pc[p] # "idle"
             /\ 0 < k /\ k < args[p].fecth_limit
             /\ AllCallsOk(p) /\ StorageOk(p)
             /\ "stopped_due_to_token_limit" \notin Statuses(p))
            => /\ Len(fetches[p]) <= 2
               /\ Len(fetches[p]) >= 1 =>
                     /\ fetches[p][1].ids = unlabeled0[p]
                     /\ fetches[p][1].offset = 0
               /\ Len(fetches[p]) = 2 =>
                     /\ fetches[p][2].ids = <<>>
                     /\ pc[p] \in {"log_read", "log_write", "returned"}
               /\ pc[p] = "returned" =>
                     /\ Len(fetches[p]) = 2
                     /\ Len(run_log[p]) = 1
                     /\ run_log[p][1].status = "completed"
               /\ pc[p] # "raised"

C2_Witness ==
    /\ pc[1] = "returned"
    /\ Len(unlabeled0[1]) = 2 /\ args[1].fecth_limit = 3
    /\ AllCallsOk(1) /\ StorageOk(1)
    /\ Len(fetches[1]) = 2 /\ Len(fetches[1][1].ids) = 2
    /\ Statuses(1) = {"completed"}

\* ------------------------------------------------------------------ C3
\* C3: when every call reports the same prompt_token_count, the run stops
\* with `stopped_due_to_token_limit` at the first call whose cumulative
\* input tokens exceed input_token_limit, whatever the page and batch sizes.
C3_StopsWhenBudgetExceeded ==
    \A p \in Procs :
        (/\ AllCallsOk(p) /\ StorageOk(p)
         /\ pc[p] \notin {"insert", "log_read", "log_write"}
         /\ \A m, n \in 1..Len(calls[p]) : calls[p][m].prompt = calls[p][n].prompt
         /\ SumOf(calls[p], "cand") <= args[p].output_token_limit
         /\ SumOf(calls[p], "prompt") > args[p].input_token_limit)
        => /\ Len(run_log[p]) = 1
           /\ run_log[p][1].status = "stopped_due_to_token_limit"
           /\ SumOf(SubSeq(calls[p], 1, Len(calls[p]) - 1), "prompt")
                 <= args[p].input_token_limit

\* ------------------------------------------------------------------ C4
\* C4: right after a successful provider call the three counters equal the
\* number of successful calls of the run and the sums of their token
\* counts, also when the calls span several pages.
C4_CountersAreRunTotals ==
    \A p \in Procs :
        (/\ pc[p] = "finally" \/ (pc[p] = "review" /\ idx[p] > 1)
         /\ calls[p] # <<>>
         /\ calls[p][Len(calls[p])].kind = "ok")
        => /\ total_requests[p] = Len(OkCalls(p))
           /\ total_input_tokens[p] = SumOf(calls[p], "prompt")
           /\ total_output_tokens[p] = SumOf(calls[p], "cand")

\* ------------------------------------------------------------------ C5
\* the bulk inserts expected for pages fs with batch size b
RECURSIVE PageChunks(_, _)
PageChunks(fs, b) ==
    IF fs = <<>> THEN <<>>
    ELSE Chunks(Head(fs).ids, b) \o PageChunks(Tail(fs), b)

\* C5: every page whose n reviews were all labeled is written by ceil(n/b)
\* bulk inserts of sizes b, ..., b, n mod b, with the review ids in page order.
C5_InsertsPerPage ==
    \A p \in Procs :
        (pc[p] = "fetch" /\ StorageOk(p))
        => [n \in 1..Len(inserts[p]) |-> inserts[p][n].ids]
              = PageChunks(fetches[p], args[p].batch_size)

C5_Witness ==
    /\ pc[1] = "fetch" /\ StorageOk(1)
    /\ args[1].batch_size = 2
    /\ Len(fetches[1]) = 1 /\ Len(fetches[1][1].ids) = 3
    /\ Len(inserts[1]) = 2
    /\ Len(inserts[1][1].ids) = 2 /\ Len(inserts[1][2].ids) = 1

\* ------------------------------------------------------------------ C6
\* C6: once the provider has raised on a review, that call is the last
\* provider call of the run, no page after the one it belongs to is fetched,
\* and when make_labels returns every review labeled before it has been
\* handed to a bulk insert.
C6_ProviderErrorEndsRun ==
    \A p \in Procs :
        \A n \in 1..Len(calls[p]) :
            calls[p][n].kind = "raise"
            => /\ n = Len(calls[p])
               /\ Len(fetches[p]) = calls[p][n].page + 1
               /\ pc[p] \in {"finally", "returned", "raised"}
               /\ pc[p] = "returned" =>
                     /\ StorageOk(p)
                     /\ Range(CallIds(OkCalls(p))) \subseteq Range(Inserted(p))
                     /\ \A r \in Range(CallIds(OkCalls(p))) : labels[r] > 0

\* the provider raised on the 3rd review of a page; reviews 1 and 2 were
\* still buffered and are flushed before the return
C6_Witness ==
    /\ pc[1] = "returned"
    /\ Len(calls[1]) = 3 /\ calls[1][3].kind = "raise"
    /\ Len(fetches[1]) = 1 /\ Len(fetches[1][1].ids) = 3
    /\ args[1].batch_size = 3
    /\ Len(inserts[1]) = 1 /\ Len(inserts[1][1].ids) = 2

\* ------------------------------------------------------------------ C7
\* C7: a result without prompt_token_count or candidates_token_count is the
\* last provider call of the run, no further page is fetched, the usage log
\* (when it can be read) gets a `failed_due_to_keyerror` row, and on return
\* the reviews buffered before it are persisted while the review with the
\* missing metadata is not.
C7_MissingMetadataEndsRun ==
    \A p \in Procs :
        \A n \in 1..Len(calls[p]) :
            calls[p][n].kind = "nometa"
            => /\ n = Len(calls[p])
               /\ Len(fetches[p]) = calls[p][n].page + 1
               /\ pc[p] \in {"log_read", "log_write", "finally", "returned",
                           "raised"}
               /\ report[p].status \in {"none", "failed_due_to_keyerror"}
               /\ (pc[p] \in {"finally", "returned", "raised"}
                   /\ ~log_failed[p]) =>
                     /\ Len(run_log[p]) = 1
                     /\ run_log[p][1].status = "failed_due_to_keyerror"
               /\ calls[p][n].id \notin Range(Inserted(p))
               /\ pc[p] = "returned" =>
                     /\ Range(CallIds(OkCalls(p))) \subseteq Range(Inserted(p))
                     /\ \A r \in Range(CallIds(OkCalls(p))) : labels[r] > 0
                     /\ labels[calls[p][n].id] = 0

\* candidates_token_count is missing on the 2nd review; review 1 was buffered
C7_Witness ==
    /\ pc[1] = "returned"
    /\ Statuses(1) = {"failed_due_to_keyerror"}
    /\ Len(calls[1]) = 2 /\ calls[1][2].kind = "nometa"
    /\ calls[1][2].prompt # Missing
    /\ Len(inserts[1]) = 1 /\ inserts[1][1].ids = <<calls[1][1].id>>
    /\ labels[calls[1][2].id] = 0

\* ------------------------------------------------------------------ C8
NamedTerminalStates ==
    {"completed", "stopped_due_to_token_limit", "failed_due_to_keyerror",
     "failed_due_to_validation"}

\* C8: every run of make_labels that returns has appended exactly one row to
\* the usage log, and its status is a named terminal state.
C8_OneLogRowPerRun ==
    \A p \in Procs :
        pc[p] = "returned"
        => /\ Len(run_log[p]) = 1
           /\ run_log[p][1].status \in NamedTerminalStates

\* ------------------------------------------------------------------ C9
\* C9: no exception leaves make_labels.
C9_NoExceptionEscapes == \A p \in Procs : pc[p] # "raised"

\* ----------------------------------------------------------------- C10
\* C10: when make_labels returns and its storage writes succeeded, the
\* write buffer is empty, every review labeled during the run has been
\* handed to a bulk insert, and the three counters are zero.
C10_CleanOnReturn ==
    \A p \in Procs :
        (pc[p] = "returned" /\ StorageOk(p))
        => /\ results_label[p] = <<>>
           /\ Range(CallIds(OkCalls(p))) \subseteq Range(Inserted(p))
           /\ total_requests[p] = 0
           /\ total_input_tokens[p] = 0
           /\ total_output_tokens[p] = 0

\* a budget stop in the middle of a page with one review still buffered
C10_Witness ==
    /\ pc[1] = "returned" /\ StorageOk(1)
    /\ Statuses(1) = {"stopped_due_to_token_limit"}
    /\ Len(calls[1]) = 3 /\ Len(fetches[1][1].ids) = 3
    /\ args[1].batch_size = 2
    /\ Len(inserts[1]) = 2 /\ Len(inserts[1][2].ids) = 1
    /\ total_requests[1] = 0

\* ----------------------------------------------------------------- C11
\* C11: with one run at a time, a review that already has a label is never
\* sent to the provider nor buffered for a write, so after any number of
\* runs one after the other every review has at most one label row.
C11_LabeledOnce ==
    /\ \A r \in 1..nreviews : labels[r] <= 1
    /\ \A p \in active :
          /\ pc[p] = "review" =>
                \A n \in idx[p]..Len(reviews[p]) : labels[reviews[p][n]] = 0
          /\ pc[p] \in {"review", "finally"} =>
                \A n \in 1..Len(results_label[p]) : labels[results_label[p][n]] = 0
          /\ \A m, n \in 1..Len(calls[p]) : m # n => calls[p][m].id # calls[p][n].id

\* a second run labels the review the first run skipped
C11_Witness ==
    /\ runs[1] = 2 /\ pc[1] = "returned"
    /\ nreviews = 2 /\ labels[1] = 1 /\ labels[2] = 1
    /\ Len(calls[1]) = 1 /\ calls[1][1].id = 2 /\ calls[1][1].kind = "ok"
\* -------------------------------------------------------------------------
\* Claims about GeminiFlashLite25Provider (specification SpecProvider)
\* -------------------------------------------------------------------------
\* the errors process_label catches, logs and re-raises
ValidationErrors == {"ValueError", "TypeError"}

processed == label_result # NoResult

failed == label_result.status \in ValidationErrors /\ label_result.labels = <<>>

\* a JSON array of exactly two arrays
PairOfArrays ==
    /\ response.kind = "list" /\ Len(response.items) = 2
    /\ response.items[1].t = "list" /\ response.items[2].t = "list"

the_scores == response.items[1].items

the_confidences == response.items[2].items

RightShape ==
    PairOfArrays /\ Len(the_scores) = Len(aspects) /\ Len(the_confidences) = Len(aspects)

ScoreInRange(s) == s.t = "null" \/ (s.t = "num" /\ -10 <= s.v /\ s.v <= 10)

ConfidenceInRange(c) == c.t = "num" /\ 0 <= c.v /\ c.v <= 10

\* C12: with n aspects, a response whose scores array or confidences array
\* has a length other than n makes process_label fail with a validation
\* error and return no LabelResult.
C12_WrongLengthFails ==
    (processed /\ PairOfArrays
        /\ (Len(the_scores) # Len(aspects) \/ Len(the_confidences) # Len(aspects)))
    => failed

C12_Witness ==
    /\ processed /\ PairOfArrays
    /\ Len(aspects) = 2 /\ Len(the_scores) = 2 /\ Len(the_confidences) = 1
    /\ \A n \in 1..2 : ScoreInRange(the_scores[n])
    /\ ConfidenceInRange(the_confidences[1])
    /\ label_result.status = "ValueError"

\* C13: a response of the right shape with a non-null score outside
\* [-1.0, 1.0] makes process_label fail with a validation error; the value
\* is not clamped into range.
C13_ScoreOutOfRangeFails ==
    (processed /\ RightShape
        /\ \E n \in 1..Len(the_scores) :
              the_scores[n].t = "num" /\ (the_scores[n].v < -10 \/ the_scores[n].v > 10))
    => failed

C13_Witness ==
    /\ processed /\ RightShape /\ Len(aspects) = 2
    /\ the_scores[1] = [t |-> "num", v |-> 0]
    /\ the_scores[2] = [t |-> "num", v |-> -15]
    /\ \A n \in 1..2 : ConfidenceInRange(the_confidences[n])
    /\ label_result.status = "ValueError"

\* C14: a response of the right shape with a null confidence makes
\* process_label fail with a validation error, whether the paired score is
\* null or a number; a confidence outside [0.0, 1.0] is rejected as well.
C14_BadConfidenceFails ==
    (processed /\ RightShape
        /\ \E n \in 1..Len(the_confidences) :
              \/ the_confidences[n].t = "null"
              \/ the_confidences[n].t = "num"
                    /\ (the_confidences[n].v < 0 \/ the_confidences[n].v > 10))
    => failed

C14_Witness ==
    /\ processed /\ RightShape /\ Len(aspects) = 2
    /\ the_scores[1].t = "null" /\ the_scores[2] = [t |-> "num", v |-> 10]
    /\ the_confidences[1] = [t |-> "num", v |-> 10]
    /\ the_confidences[2].t = "null"
    /\ label_result.status = "TypeError"

\* C15: for a pair of arrays of length n whose scores are null or within
\* [-1.0, 1.0] and whose confidences are within [0.0, 1.0], bounds included,
\* process_label succeeds with exactly one entry per aspect, the i-th aspect
\* mapped to scores[i] and confidences[i] unchanged.
C15_ValidResponseZipped ==
    (processed /\ RightShape
        /\ \A n \in 1..Len(aspects) :
              ScoreInRange(the_scores[n]) /\ ConfidenceInRange(the_confidences[n]))
    => /\ label_result.status = "ok"
       /\ DOMAIN label_result.labels = Range(aspects)
       /\ \A n \in 1..Len(aspects) :
             label_result.labels[aspects[n]] =
                 [score |-> the_scores[n], confidence |-> the_confidences[n]]

\* -------------------------------------------------------------------------
\* Claims about DataFactory and the constructor (specification SpecFactory)
\* -------------------------------------------------------------------------
\* C16: constructing LabelingService with an unknown provider name, an
\* unknown storage client kind or missing storage credentials fails with an
\* error during construction, before any unlabeled record is fetched, sent
\* to a provider or written.
C16_BadConfigFailsAtConstruction ==
    (last_call.op = "construct"
        /\ (\/ last_call.provider \notin Providers
            \/ last_call.client_type \notin ClientTypes
            \/ ~last_call.creds))
    => /\ last_call.status # "ok"
       /\ active = {}
       /\ \A p \in Procs :
             fetches[p] = <<>> /\ calls[p] = <<>> /\ inserts[p] = <<>>
       /\ \A r \in 1..nreviews : labels[r] = 0

C16_Witness ==
    /\ last_call.op = "construct"
    /\ last_call.provider = "gpt-4"
    /\ last_call.client_type = "mysql"
    /\ ~last_call.creds
    /\ last_call.status = "TypeError"
    /\ instances = last_call.before

\* C17: two create calls with the same (data_type, client_type) and no reset
\* of that key in between return the same instance, the storage client is
\* built once for it, and the instance keeps the logger given at its first
\* creation even when the later call passes another logger.
C17_CreateIsCached ==
    (last_call.op = "create" /\ last_call.status = "ok"
        /\ last_call.prior # NoReturn)
    => /\ last_call.result.id = last_call.prior.id
       /\ last_call.result.logger = last_call.prior.given
       /\ last_call.builds = 1
       /\ instances[<<last_call.data_type, last_call.client_type>>]
             = last_call.result

C17_Witness ==
    /\ last_call.op = "create" /\ last_call.status = "ok"
    /\ last_call.data_type = "review"
    /\ last_call.prior = [id |-> 2, given |-> "logger1"]
    /\ last_call.logger = "logger2"
    /\ last_call.result = [id |-> 2, kind |-> "review", logger |-> "logger1"]
    /\ retired = {[id |-> 1, kind |-> "review", logger |-> "None"]}
    /\ built[<<"review", "supabase">>] = 1

\* C18: reset(data_type, client_type) removes exactly the cached instances
\* whose key matches every argument that is given, all of them when none is
\* given, and leaves every other cached instance unchanged; a create for a
\* removed key afterwards returns a new instance, different from the ones
\* cached before.
C18_ResetRemovesMatching ==
    /\ last_call.op = "reset" =>
          \A key \in Keys :
             instances[key] =
                IF ResetCovers(key, last_call.data_type, last_call.client_type)
                THEN NoInstance ELSE last_call.before[key]
    /\ (last_call.op = "create" /\ last_call.status = "ok"
           /\ <<last_call.data_type, last_call.client_type>>
                 \notin Cached(last_call.before))
       => /\ \A old \in retired : old.id # last_call.result.id
          /\ \A key \in Keys : last_call.before[key].id # last_call.result.id

C18_Witness ==
    /\ last_call.op = "reset"
    /\ last_call.data_type = "review" /\ last_call.client_type = "None"
    /\ Cached(last_call.before) = {<<"review", "supabase">>, <<"label", "supabase">>}
    /\ Cached(instances) = {<<"label", "supabase">>}
    /\ instances[<<"label", "supabase">>] = last_call.before[<<"label", "supabase">>]
    /\ retired = {last_call.before[<<"review", "supabase">>]}
\* -------------------------------------------------------------------------
\* Claims about ReviewRepository (specification SpecRepo)
\* -------------------------------------------------------------------------
IsPositive(x) == x.t = "int" /\ x.v > 0

IsNotPositive(x) == x.t = "int" /\ x.v <= 0

\* C19: get_unlabeled_reviews raises ValueError when batch_id is None,
\* batch_id <= 0 or limit <= 0, without calling the data layer; for valid
\* arguments it calls the data layer exactly once with the same batch_id,
\* limit and offset and returns its result unchanged.
C19_ValidatesThenDelegates ==
    repo_call.op = "get_unlabeled_reviews" =>
       /\ (\/ repo_call.batch_id = None
           \/ IsNotPositive(repo_call.batch_id)
           \/ IsNotPositive(repo_call.limit))
          => (repo_call.status = "ValueError" /\ fetched = <<>>)
       /\ (IsPositive(repo_call.batch_id) /\ IsPositive(repo_call.limit))
          => /\ fetched = <<[batch_id |-> repo_call.batch_id,
                             limit |-> repo_call.limit,
                             offset |-> repo_call.offset]>>
             /\ repo_call.outcome.status = "ok" =>
                   /\ repo_call.status = "ok"
                   /\ repo_call.value = repo_call.outcome.page

C19_Witness ==
    /\ repo_call.op = "get_unlabeled_reviews"
    /\ repo_call.batch_id = IntVal(1)
    /\ repo_call.limit = IntVal(0)
    /\ repo_call.outcome.page = <<1, 2>>
    /\ repo_call.status = "ValueError"
    /\ fetched = <<>>

\* an entry has a review_id (a non-zero id) and labels (a non-empty mapping)
HasReviewIdAndLabels(update) ==
    /\ update.review_id.t = "int" /\ update.review_id.v # 0
    /\ update.labels = "labels"

\* C20: bulk_update_labels forwards to the data layer exactly the input
\* entries that have both a review_id and labels, in input order, skipping
\* the others, and returns the success count the data layer reports; for an
\* empty input it returns 0 without calling the data layer.
C20_ForwardsCompleteEntries ==
    repo_call.op = "bulk_update_labels" =>
       IF repo_call.updates = <<>>
       THEN repo_call.status = "ok" /\ repo_call.value = 0 /\ forwarded = <<>>
       ELSE LET kept == SelectSeq(repo_call.updates, HasReviewIdAndLabels)
            IN  /\ Len(forwarded) = 1
                /\ Len(forwarded[1]) = Len(kept)
                /\ \A n \in 1..Len(kept) :
                      /\ forwarded[1][n].id = kept[n].review_id
                      /\ forwarded[1][n].labels = kept[n].labels
                /\ repo_call.count >= 0 =>
                      (repo_call.status = "ok" /\ repo_call.value = repo_call.count)

C20_Witness ==
    /\ repo_call.op = "bulk_update_labels"
    /\ Len(repo_call.updates) = 2
    /\ repo_call.updates[1].review_id = None
    /\ repo_call.updates[1].labels = "labels"
    /\ repo_call.updates[2] =
          [review_id |-> IntVal(2), labels |-> "labels", metadata |-> "metadata"]
    /\ forwarded = <<<<[id |-> IntVal(2), labels |-> "labels",
                        labeled_at |-> "utcnow", metadata |-> "metadata"]>>>>
    /\ repo_call.count = 1 /\ repo_call.value = 1
\* the updates that carry an id (a non-zero id), by position
WithId(updates) ==
    {n \in 1..Len(updates) : updates[n].id.t = "int" /\ updates[n].id.v # 0}

\* C21: bulk_update_reviews attempts every update that has an id even after
\* an earlier update failed, never raises because of a failed update, and
\* returns the number of updates that had an id and whose storage update
\* succeeded, so 0 <= result <= number of updates.  While the call is under
\* way the same holds of the updates it has got to.
C21_BestEffortBulkUpdate ==
    repo_call.op = "bulk_update_reviews" =>
       LET done == {n \in WithId(repo_call.updates) : n <= repo_call.pos}
       IN  /\ repo_call.status \in {"running", "ok"}
           /\ repo_call.status = "ok" => done = WithId(repo_call.updates)
           /\ repo_call.status = "running" => done # WithId(repo_call.updates)
           /\ Len(repo_call.attempted) = Cardinality(done)
           /\ repo_call.attempted =
                 [n \in 1..Len(repo_call.attempted) |->
                     repo_call.updates[
                         CHOOSE m \in done :
                             Cardinality({k \in done : k <= m}) = n].id]
           /\ repo_call.value =
                 Cardinality({n \in done : repo_call.storage[n]})
           /\ 0 <= repo_call.value
           /\ repo_call.value <= Len(repo_call.updates)

C21_Witness ==
    /\ repo_call.op = "bulk_update_reviews"
    /\ repo_call.updates = <<[id |-> IntVal(1)], [id |-> IntVal(2)]>>
    /\ repo_call.storage = <<FALSE, TRUE>>
    /\ repo_call.attempted = <<IntVal(1), IntVal(2)>>
    /\ repo_call.status = "ok" /\ repo_call.value = 1
\* ----------------------------------------------------------------- C22
\* the review ids of a sequence of page fetches, in fetch order
PageIds(fs) == Flatten([n \in 1..Len(fs) |-> fs[n].ids])

\* C22: the p-th page fetch of a run (p = 0, 1, ...) has offset
\* p * fetch_page_size and limit fetch_page_size, page p+1 is fetched only
\* after every record of page p has been processed, and within a page the
\* provider is called on the records one at a time in page order.
C22_PagesInOrder ==
    \A p \in Procs :
        LET fs == fetches[p]
            cs == CallIds(calls[p])
        IN  /\ \A n \in 1..Len(fs) :
                  /\ fs[n].offset = (n - 1) * args[p].fecth_limit
                  /\ fs[n].limit = args[p].fecth_limit
            /\ Len(cs) <= Len(PageIds(fs))
            /\ cs = SubSeq(PageIds(fs), 1, Len(cs))
            /\ fs # <<>> => Len(cs) >= Len(PageIds(SubSeq(fs, 1, Len(fs) - 1)))
            /\ \A n \in 1..Len(calls[p]) :
                  calls[p][n].id \in Range(fs[calls[p][n].page + 1].ids)

C22_Witness ==
    /\ pc[1] = "returned" /\ runs[1] = 1
    /\ args[1].fecth_limit = 2
    /\ Len(fetches[1]) = 2
    /\ fetches[1][1].ids = <<1, 2>> /\ fetches[1][1].offset = 0
    /\ fetches[1][2].offset = 2 /\ fetches[1][2].limit = 2
    /\ CallIds(calls[1]) = <<1, 2>> /\ AllCallsOk(1)
\* ----------------------------------------------------------------- C23
\* C23: when a run stops because a token budget is exceeded or because usage
\* metadata is missing, the buffered labels are persisted before the
\* usage-log row of that terminal status is appended: whenever the row is
\* there, every label result of the run has been handed to a bulk insert.
C23_FlushBeforeStatus ==
    \A p \in Procs :
        (Statuses(p) \cap {"stopped_due_to_token_limit",
                           "failed_due_to_keyerror"} # {})
        => /\ results_label[p] = <<>>
           /\ Inserted(p) = CallIds(OkCalls(p))

\* ----------------------------------------------------------------- C24
\* C24: the write buffer is governed by write_batch_size only: results stay
\* buffered across page fetches, so a bulk insert with fewer than
\* write_batch_size records is only ever the last insert of a run: every
\* insert that is followed by another one carried write_batch_size records.
C24_ShortInsertOnlyLast ==
    \A p \in Procs :
        \A n \in 1..(Len(inserts[p]) - 1) :
            Len(inserts[p][n].ids) >= args[p].batch_size

\* ----------------------------------------------------------------- C25
\* label rows of review r written by the successful bulk inserts of run p
RowsFor(p, r) ==
    Cardinality({nm \in (DOMAIN inserts[p]) \X (1..MaxBatch + MaxFetch) :
                    /\ inserts[p][nm[1]].ok
                    /\ nm[2] \in DOMAIN inserts[p][nm[1]].ids
                    /\ inserts[p][nm[1]].ids[nm[2]] = r})

FetchedBy(p, r) ==
    \E n \in DOMAIN fetches[p] : fetches[p][n].ok /\ r \in Range(fetches[p][n].ids)

SentBy(p, r) ==
    \E n \in DOMAIN calls[p] : calls[p][n].id = r /\ calls[p][n].kind = "ok"

\* C25: nothing in make_labels excludes a second run on the same batch:
\* when two runs interleave, every label either run submits in a successful
\* bulk insert becomes a row of its own, whether or not the other run has
\* labeled that review already, so a review both runs fetched and sent to
\* the provider ends with a label row from each of them.
C25_NoMutualExclusion ==
    \A r \in 1..nreviews : labels[r] = RowsFor(1, r) + RowsFor(2, r)

\* both runs fetched review 1, both sent it to the provider and both
\* persisted a label for it
C25_Witness ==
    /\ FetchedBy(1, 1) /\ FetchedBy(2, 1)
    /\ SentBy(1, 1) /\ SentBy(2, 1)
    /\ RowsFor(1, 1) = 1 /\ RowsFor(2, 1) = 1
    /\ labels[1] = 2
    /\ pc[1] = "returned" /\ pc[2] = "returned"

\* ----------------------------------------------------------------- C26
LoopEnded == loop_pc \in {"returned", "raised"}

\* C26: provided every storage and provider call returns, make_labels always
\* terminates, and it never issues more than 10000 page fetches or more than
\* 10000 * fecth_limit provider calls, also when storage never returns an
\* empty page.
C26_TerminatesWithinBound ==
    /\ [](/\ fetch_count <= RangeBound
          /\ call_count <= RangeBound * loop_fecth_limit)
    /\ <>LoopEnded

\* storage answered all 10000 fetches with a full page and the run is over
C26_Witness ==
    /\ loop_pc = "returned"
    /\ loop_fecth_limit = 2
    /\ loop_i = RangeBound
    /\ fetch_count = RangeBound
    /\ call_count = RangeBound * loop_fecth_limit

\* ----------------------------------------------------------------- C27
\* C27: every usage-log row make_labels appends at a terminal transition
\* records input_tokens, output_tokens and total_requests equal to the totals
\* over all successful provider calls of the run so far; the `completed` row
\* of a run that labeled m records has total_requests = m.  Runs whose
\* provider calls all succeeded with complete usage metadata are looked at.
C27_LogRowHoldsRunTotals ==
    \A p \in Procs :
        AllCallsOk(p) =>
            \A n \in DOMAIN run_log[p] :
                /\ run_log[p][n].total_requests = Len(OkCalls(p))
                /\ run_log[p][n].input_tokens = SumOf(calls[p], "prompt")
                /\ run_log[p][n].output_tokens = SumOf(calls[p], "cand")

\* ----------------------------------------------------------------- C28
\* the successful calls the run made in the page of its last call
OkCallsOfLastPage(p) ==
    SelectSeq(calls[p], LAMBDA c :
        c.kind = "ok" /\ c.page = calls[p][Len(calls[p])].page)

\* C28: the three run counters change together per record: a provider
\* result whose usage metadata is incomplete changes none of the counters
\* recorded in the usage log, so the `failed_due_to_keyerror` row reports
\* what the counters held after the last complete result.
C28_CountersChangeTogether ==
    \A p \in Procs :
        \A n \in DOMAIN run_log[p] :
            run_log[p][n].status = "failed_due_to_keyerror"
            => /\ run_log[p][n].total_requests = Len(OkCallsOfLastPage(p))
               /\ run_log[p][n].input_tokens
                      = SumOf(OkCallsOfLastPage(p), "prompt")
               /\ run_log[p][n].output_tokens
                      = SumOf(OkCallsOfLastPage(p), "cand")

\* ----------------------------------------------------------------- C29
\* C29: during a run each group of buffered labels is passed to the bulk
\* insert at most once: after a bulk insert that failed, the labels it
\* carried are not submitted to storage again before make_labels exits.
C29_SubmittedAtMostOnce ==
    \A p \in Procs :
        \A n, m \in DOMAIN inserts[p] :
            n < m => Range(inserts[p][n].ids) \cap Range(inserts[p][m].ids) = {}

\* ----------------------------------------------------------------- C30
\* C30: a DataFactory.create call that fails (invalid data_type, invalid
\* client_type, missing Supabase credentials, the unimplemented postgres
\* backend) leaves the set of cached instances exactly as it was before the
\* call, and get_instance / list_instances never add or remove a cached
\* instance.
C30_FailedCreateKeepsCache ==
    /\ (last_call.op = "create" /\ last_call.status # "ok")
       => instances = last_call.before
    /\ last_call.op \in {"get_instance", "list_instances"}
       => instances = last_call.before

\* with an instance cached, a create for the postgres backend failed
C30_Witness ==
    /\ last_call.op = "create"
    /\ last_call.client_type = "postgres"
    /\ last_call.data_type = "review"
    /\ last_call.status = "NotImplementedError"
    /\ Cached(last_call.before) = {<<"review", "supabase">>}
    /\ Cached(instances) = {<<"review", "supabase">>}

====
